---- MODULE Spec2Model ----
(***************************************************************************)
(* libcsvkit: the row decoder (src/src/parser.c) and the row encoder       *)
(* (src/src/writer.c) as a state machine.  A text is a sequence of         *)
(* one-character strings; a parser reads one from its bound source, a      *)
(* writer appends to its sink.                                             *)
(***************************************************************************)
EXTENDS Naturals, Sequences, FiniteSets, TLC

VARIABLES
    parser,     \* struct csvkit_parser
    writer,     \* struct csvkit_writer
    input,      \* the caller's buffer handed to csvkit_open_string
    sink,       \* the text behind the writer's stream
    out_row,    \* the caller's csvkit_row_t* that csvkit_read_row assigns
    ret,        \* the last call: its name and its return code
    returned,   \* history: rows handed out since the last open
    dropped,    \* history: rows decoded but not handed out since the last open
    scan,       \* history: how the last parse_row_internal call ended
    written,    \* history: rows csvkit_writer_write_row has written
    cfg,        \* the caller's csvkit_config_t handed to the constructors
    fs,         \* the C library's FILE objects: those fopen made, the caller's streams
    msg_set,    \* history: whether the last call stored an error message
    locals,     \* csvkit_read_row's and parse_row_internal's locals, call in progress
    it          \* a Parser::Iterator, and the loop that runs it

vars == <<parser, writer, input, sink, out_row, ret, returned, dropped, scan, written,
          cfg, fs, msg_set, locals, it>>

----------------------------------------------------------------------------
(* Bounds *)

\* longest input buffer enumerated for the parser
MaxLen == 3
\* total size (fields + characters) of the rows handed to the writer
MaxText == 4

----------------------------------------------------------------------------
(* Characters, error codes, configurations *)

LF == "\n"
CR == "\r"
SP == " "
\* what read_char returns at the end of the source; no character equals it
EOF == "EOF"

\* the characters a configuration tells apart, and one it does not ("a"); a space
\* is told apart from "a" by trim_whitespace alone
CharsOf(config) ==
    {"a", config.delimiter, config.quote_char, config.escape_char, LF, CR}
        \cup (IF config.trim_whitespace THEN {SP} ELSE {})

CSVKIT_OK == "CSVKIT_OK"
CSVKIT_ERROR_MEMORY == "CSVKIT_ERROR_MEMORY"
CSVKIT_ERROR_IO == "CSVKIT_ERROR_IO"
CSVKIT_ERROR_PARSE == "CSVKIT_ERROR_PARSE"
CSVKIT_ERROR_INVALID_ARG == "CSVKIT_ERROR_INVALID_ARG"
CSVKIT_ERROR_EOF == "CSVKIT_ERROR_EOF"

\* a null char* / FILE* / error_msg
NULL == <<"NULL">>

validate_config(config) ==
    /\ config.delimiter \notin {LF, CR}
    /\ ~(config.escape_char = config.quote_char /\ config.delimiter = config.quote_char)
    /\ config.delimiter # config.quote_char
    /\ config.quote_char \notin {LF, CR}
    /\ config.escape_char \notin {LF, CR}

csvkit_config_default ==
    [delimiter |-> ",", quote_char |-> "\"", escape_char |-> "\"",
     trim_whitespace |-> FALSE, skip_empty_rows |-> FALSE, strict_mode |-> FALSE]

\* the dialects enumerated: (delimiter, quote_char, escape_char)
Dialects == { <<",", "\"", "\"">>, <<",", "\"", "\\">>, <<",", "\"", ",">> }

Configs ==
    { c \in { [delimiter |-> d[1], quote_char |-> d[2], escape_char |-> d[3],
               trim_whitespace |-> t, skip_empty_rows |-> s, strict_mode |-> m] :
               d \in Dialects, t \in BOOLEAN, s \in BOOLEAN, m \in BOOLEAN } :
      validate_config(c) }

----------------------------------------------------------------------------
(* parser.c: helpers *)

\* the C locale's white space, less the vertical tab, which no text here holds
isspace(c) == c \in {SP, "\t", LF, "\f", CR}

SetMin(S) == CHOOSE x \in S : \A y \in S : x <= y
SetMax(S) == CHOOSE x \in S : \A y \in S : y <= x

trim_whitespace_inplace(str) ==
    IF str = <<>> THEN str
    ELSE LET nonspace == { i \in 1..Len(str) : ~isspace(str[i]) }
         IN  IF nonspace = {} THEN <<>>
             ELSE SubSeq(str, SetMin(nonspace), SetMax(nonspace))

\* read_char that moves the position at the end of the buffer too
read_char_PastEnd(data, pos) ==
    IF pos >= Len(data) THEN [c |-> EOF, pos |-> pos + 1]
    ELSE [c |-> data[pos + 1], pos |-> pos + 1]

\* the character read and the position after the read
read_char(data, pos) ==
    IF pos >= Len(data) THEN [c |-> EOF, pos |-> pos]
    ELSE [c |-> data[pos + 1], pos |-> pos + 1]

\* unread_char that pushes nothing back
unread_char_Lost(pos, c) == pos

\* unread_char that steps back over two characters
unread_char_Twice(pos, c) ==
    IF c = EOF THEN pos ELSE IF pos > 1 THEN pos - 2 ELSE 0

\* the position after pushing c back
unread_char(pos, c) ==
    IF c = EOF THEN pos ELSE IF pos > 0 THEN pos - 1 ELSE pos

\* strdup(msg): a pointer that is not NULL, to a copy of msg
strdup(msg) == <<msg>>

set_error(p, msg) == [p EXCEPT !.error_msg = strdup(msg)]

----------------------------------------------------------------------------
(* parser.c: parse_row_internal *)

\* the locals of parse_row_internal; the source position is carried along
ScanStart(pos) ==
    [pos |-> pos, buffer |-> <<>>, fields |-> <<>>, in_quotes |-> FALSE,
     field_started |-> FALSE, field_was_quoted |-> FALSE]

ScanReturn(result, s, fields) ==
    [result |-> result, fields |-> fields, pos |-> s.pos, in_quotes |-> s.in_quotes]

\* "Add character to buffer"
AddChar(s, c) == [s EXCEPT !.buffer = Append(@, c), !.field_started = TRUE]

\* string_duplicate + trim of the field being closed
FieldValue(config, s) ==
    IF config.trim_whitespace /\ ~s.field_was_quoted
    THEN trim_whitespace_inplace(s.buffer)
    ELSE s.buffer

\* OpensQuote taking every quote_char outside quotes for an opening one
OpensQuote_Anywhere(config, c, field_started) == c = config.quote_char

\* "c == quote_char && !field_started"
OpensQuote(config, c, field_started) == c = config.quote_char /\ ~field_started

\* the characters strict mode accepts after a closing quote
AfterQuoteOkNoEOF(config, next) ==
    next = config.delimiter \/ next = LF \/ next = CR

\* AfterQuoteOk accepting every character
AfterQuoteOk_Any(config, next) == TRUE

AfterQuoteOk(config, next) ==
    next = EOF \/ next = config.delimiter \/ next = LF \/ next = CR

\* NoRowLeft without its test of field_started
NoRowLeft_NoStarted(c, buffer_len, field_count, field_started) ==
    c = EOF /\ buffer_len = 0 /\ field_count = 0

\* NoRowLeft without its test of c
NoRowLeft_NoEOF(c, buffer_len, field_count, field_started) ==
    buffer_len = 0 /\ field_count = 0 /\ ~field_started

\* "c == EOF && buffer_len == 0 && row->field_count == 0 && !field_started"
NoRowLeft(c, buffer_len, field_count, field_started) ==
    c = EOF /\ buffer_len = 0 /\ field_count = 0 /\ ~field_started

\* AfterLoop adding no last field after a trailing delimiter
AfterLoop_NoEmptyLast(config, s, c) ==
    IF NoRowLeft(c, Len(s.buffer), Len(s.fields), s.field_started)
    THEN ScanReturn(CSVKIT_ERROR_EOF, s, s.fields)
    ELSE IF s.in_quotes
    THEN ScanReturn(CSVKIT_ERROR_PARSE, s, s.fields)
    ELSE IF s.buffer = <<>> /\ ~s.field_started /\ s.fields # <<>>
    THEN ScanReturn(CSVKIT_OK, s, s.fields)
    ELSE ScanReturn(CSVKIT_OK, s, Append(s.fields, FieldValue(config, s)))

\* AfterLoop adding no field for an empty line
AfterLoop_NoFieldOfEmptyLine(config, s, c) ==
    IF NoRowLeft(c, Len(s.buffer), Len(s.fields), s.field_started)
    THEN ScanReturn(CSVKIT_ERROR_EOF, s, s.fields)
    ELSE IF s.in_quotes
    THEN ScanReturn(CSVKIT_ERROR_PARSE, s, s.fields)
    ELSE IF s.buffer = <<>> /\ ~s.field_started /\ s.fields = <<>>
    THEN ScanReturn(CSVKIT_OK, s, s.fields)
    ELSE ScanReturn(CSVKIT_OK, s, Append(s.fields, FieldValue(config, s)))

\* after the loop: c is the last value of the loop variable
AfterLoop(config, s, c) ==
    IF NoRowLeft(c, Len(s.buffer), Len(s.fields), s.field_started)
    THEN ScanReturn(CSVKIT_ERROR_EOF, s, s.fields)
    ELSE IF s.in_quotes
    THEN ScanReturn(CSVKIT_ERROR_PARSE, s, s.fields)
    ELSE ScanReturn(CSVKIT_OK, s, Append(s.fields, FieldValue(config, s)))

RECURSIVE ScanLoop(_, _, _)

\* one pass of the loop body with in_quotes false
Unquoted(config, data, s, c) ==
    IF OpensQuote(config, c, s.field_started)
    THEN ScanLoop(config, data,
             [s EXCEPT !.in_quotes = TRUE, !.field_started = TRUE,
                       !.field_was_quoted = TRUE])
    ELSE IF c = config.delimiter
    THEN ScanLoop(config, data,
             [s EXCEPT !.fields = Append(@, FieldValue(config, s)),
                       !.buffer = <<>>, !.field_started = FALSE,
                       !.field_was_quoted = FALSE])
    ELSE IF c = LF
    THEN AfterLoop(config, s, c)
    ELSE ScanLoop(config, data, AddChar(s, c))

\* Quoted taking escape_char before quote_char for the end of the field
Quoted_DoubledCloses(config, data, s, c) ==
    IF c = config.escape_char
    THEN LET nx == read_char(data, s.pos)
             s2 == [s EXCEPT !.pos = nx.pos]
         IN  IF nx.c = EOF
             THEN AfterLoop(config, s2, c)
             ELSE ScanLoop(config, data,
                      [s2 EXCEPT !.pos = unread_char(nx.pos, nx.c), !.in_quotes = FALSE])
    ELSE IF c = config.quote_char
    THEN ScanLoop(config, data, [s EXCEPT !.in_quotes = FALSE])
    ELSE ScanLoop(config, data, AddChar(s, c))

\* Quoted dropping an escape character that escapes neither a quote nor itself
Quoted_DropsEscape(config, data, s, c) ==
    IF c = config.escape_char
    THEN LET nx == read_char(data, s.pos)
             s2 == [s EXCEPT !.pos = nx.pos]
         IN  IF nx.c = config.quote_char
             THEN ScanLoop(config, data, AddChar(s2, config.quote_char))
             ELSE IF nx.c = config.escape_char
             THEN ScanLoop(config, data, AddChar(s2, config.escape_char))
             ELSE IF nx.c # EOF
             THEN IF config.escape_char = config.quote_char
                  THEN IF config.strict_mode /\ ~AfterQuoteOkNoEOF(config, nx.c)
                       THEN ScanReturn(CSVKIT_ERROR_PARSE, s2, s2.fields)
                       ELSE ScanLoop(config, data,
                                [s2 EXCEPT !.pos = unread_char(nx.pos, nx.c),
                                           !.in_quotes = FALSE])
                  ELSE ScanLoop(config, data, AddChar(s2, nx.c))
             ELSE AfterLoop(config, s2, c)
    ELSE IF c = config.quote_char /\ config.escape_char # config.quote_char
    THEN IF config.strict_mode
         THEN LET nx == read_char(data, s.pos)
              IN  IF ~AfterQuoteOk(config, nx.c)
                  THEN ScanReturn(CSVKIT_ERROR_PARSE,
                           [s EXCEPT !.pos = nx.pos, !.in_quotes = FALSE], s.fields)
                  ELSE ScanLoop(config, data,
                           [s EXCEPT !.pos = unread_char(nx.pos, nx.c),
                                     !.in_quotes = FALSE])
         ELSE ScanLoop(config, data, [s EXCEPT !.in_quotes = FALSE])
    ELSE ScanLoop(config, data, AddChar(s, c))

\* one pass of the loop body with in_quotes true
Quoted(config, data, s, c) ==
    IF c = config.escape_char
    THEN LET nx == read_char(data, s.pos)
             s2 == [s EXCEPT !.pos = nx.pos]
         IN  IF nx.c = config.quote_char
             THEN ScanLoop(config, data, AddChar(s2, config.quote_char))
             ELSE IF nx.c = config.escape_char
             THEN ScanLoop(config, data, AddChar(s2, config.escape_char))
             ELSE IF nx.c # EOF
             THEN IF config.escape_char = config.quote_char
                  THEN IF config.strict_mode /\ ~AfterQuoteOkNoEOF(config, nx.c)
                       THEN ScanReturn(CSVKIT_ERROR_PARSE, s2, s2.fields)
                       ELSE ScanLoop(config, data,
                                [s2 EXCEPT !.pos = unread_char(nx.pos, nx.c),
                                           !.in_quotes = FALSE])
                  ELSE ScanLoop(config, data,
                           AddChar([s2 EXCEPT !.buffer = Append(@, c)], nx.c))
             ELSE AfterLoop(config, s2, c)
    ELSE IF c = config.quote_char /\ config.escape_char # config.quote_char
    THEN IF config.strict_mode
         THEN LET nx == read_char(data, s.pos)
              IN  IF ~AfterQuoteOk(config, nx.c)
                  THEN ScanReturn(CSVKIT_ERROR_PARSE,
                           [s EXCEPT !.pos = nx.pos, !.in_quotes = FALSE], s.fields)
                  ELSE ScanLoop(config, data,
                           [s EXCEPT !.pos = unread_char(nx.pos, nx.c),
                                     !.in_quotes = FALSE])
         ELSE ScanLoop(config, data, [s EXCEPT !.in_quotes = FALSE])
    ELSE ScanLoop(config, data, AddChar(s, c))

\* ScanLoop folding CR and CR LF into LF inside quoted fields too
ScanLoop_CRLFInQuotes(config, data, s) ==
    LET rd == read_char(data, s.pos)
    IN  IF rd.c = EOF
        THEN AfterLoop(config, s, EOF)
        ELSE LET crlf == rd.c = CR
                 nx   == read_char(data, rd.pos)
                 pos1 == IF crlf
                         THEN IF nx.c # LF /\ nx.c # EOF
                              THEN unread_char(nx.pos, nx.c)
                              ELSE nx.pos
                         ELSE rd.pos
                 c    == IF crlf THEN LF ELSE rd.c
                 s1   == [s EXCEPT !.pos = pos1]
             IN  IF ~s.in_quotes
                 THEN Unquoted(config, data, s1, c)
                 ELSE Quoted(config, data, s1, c)

\* while ((c = read_char(parser)) != EOF) { ... }
ScanLoop(config, data, s) ==
    LET rd == read_char(data, s.pos)
    IN  IF rd.c = EOF
        THEN AfterLoop(config, s, EOF)
        ELSE LET crlf == ~s.in_quotes /\ rd.c = CR
                 nx   == read_char(data, rd.pos)
                 pos1 == IF crlf
                         THEN IF nx.c # LF /\ nx.c # EOF
                              THEN unread_char(nx.pos, nx.c)
                              ELSE nx.pos
                         ELSE rd.pos
                 c    == IF crlf THEN LF ELSE rd.c
                 s1   == [s EXCEPT !.pos = pos1]
             IN  IF ~s.in_quotes
                 THEN Unquoted(config, data, s1, c)
                 ELSE Quoted(config, data, s1, c)

\* every allocation succeeds: no path returns CSVKIT_ERROR_MEMORY
parse_row_internal(config, data, pos) == ScanLoop(config, data, ScanStart(pos))

----------------------------------------------------------------------------
(* parser.c: rows and csvkit_read_row *)

\* a null csvkit_row_t*
NoRow == [null |-> TRUE, fields |-> <<>>, row_number |-> 0]

Row(fields, row_number) == [null |-> FALSE, fields |-> fields, row_number |-> row_number]

\* csvkit_row_is_empty looking at the first field only
csvkit_row_is_empty_First(row) ==
    \/ row.null
    \/ Len(row.fields) = 0
    \/ row.fields[1] = <<>>

csvkit_row_is_empty(row) ==
    \/ row.null
    \/ Len(row.fields) = 0
    \/ \A i \in 1..Len(row.fields) : row.fields[i] = <<>>

\* CountRow that forgets the increment
CountRow_Forgot(p) == p

\* "parser->row_number++" after a row was decoded
CountRow(p) == [p EXCEPT !.row_number = @ + 1]

\* SkipsRow keeping the empty rows in strict mode
SkipsRow_NotInStrict(config, row) ==
    config.skip_empty_rows /\ ~config.strict_mode /\ csvkit_row_is_empty(row)

\* "config.skip_empty_rows && csvkit_row_is_empty(row)"
SkipsRow(config, row) == config.skip_empty_rows /\ csvkit_row_is_empty(row)

\* StrictCheck that takes every row's field count as the expected one
StrictCheck_Relearn(p, row) ==
    [parser |-> IF p.config.strict_mode
                THEN [p EXCEPT !.expected_field_count = Len(row.fields)]
                ELSE p,
     result |-> CSVKIT_OK, row |-> row]

\* the strict-mode field count check; what csvkit_read_row returns for a kept row
StrictCheck(p, row) ==
    IF p.config.strict_mode
    THEN IF p.expected_field_count = 0
         THEN [parser |-> [p EXCEPT !.expected_field_count = Len(row.fields)],
               result |-> CSVKIT_OK, row |-> row]
         ELSE IF Len(row.fields) # p.expected_field_count
         THEN [parser |-> set_error(p, "Field count mismatch in strict mode"),
               result |-> CSVKIT_ERROR_PARSE, row |-> NoRow]
         ELSE [parser |-> p, result |-> CSVKIT_OK, row |-> row]
    ELSE [parser |-> p, result |-> CSVKIT_OK, row |-> row]

RECURSIVE read_next_row(_, _)

\* from the label read_next_row on; skipped counts the rows elided so far
read_next_row(p, skipped) ==
    LET r  == parse_row_internal(p.config, p.string_data, p.string_pos)
        p1 == [p EXCEPT !.string_pos = r.pos]
    IN  IF r.result # CSVKIT_OK
        THEN [parser  |-> IF r.result = CSVKIT_ERROR_PARSE
                          THEN set_error(p1, "Unclosed quoted field")
                          ELSE p1,
              result  |-> r.result, row |-> NoRow,
              skipped |-> skipped, scan |-> r, kept |-> FALSE]
        ELSE LET p2  == CountRow(p1)
                 row == Row(r.fields, p2.row_number)
             IN  IF SkipsRow(p.config, row)
                 THEN read_next_row(p2, skipped + 1)
                 ELSE LET k == StrictCheck(p2, row)
                      IN  [parser  |-> k.parser, result |-> k.result, row |-> k.row,
                           skipped |-> skipped, scan |-> r, kept |-> TRUE]

----------------------------------------------------------------------------
(* stdio: the FILE objects behind the parser and the writer *)

\* most FILE objects fopen makes in one run
MaxOpen == 2

\* the caller's stream handed to csvkit_open_stream
INPUT_STREAM == <<"INPUT_STREAM">>
\* the caller's stream handed to csvkit_writer_open_stream
STREAM == <<"STREAM">>
\* the n-th FILE fopen made
FileNo(n) == <<"FILE", n>>
IsFopened(h) == Len(h) = 2

\* the paths the caller names: one file that can be read and one that is not there,
\* one that can be created and one that cannot
ReadPaths == {"in.csv", "missing.csv"}
WritePaths == {"out.csv", "nodir/out.csv"}

\* what in.csv holds, and what is left to read on the caller's stream
FileText == <<"a", LF>>
StreamText == <<"a", CR, "b">>

\* no FILE made yet, the caller's stream at its start, no fclose of a caller's stream
NoFiles == [files |-> <<>>, stream_pos |-> 0, stream_closes |-> 0]

\* whether fopen(path, mode) returns a FILE
fopen_ok(path, mode) ==
    \/ mode = "r" /\ path = "in.csv"
    \/ mode = "w" /\ path = "out.csv"

\* the FILE objects after a fopen that returned one: the new one is the last
fopen(f, path, mode) ==
    [f EXCEPT !.files = Append(@, [path |-> path,
                                   text |-> IF mode = "r" THEN FileText ELSE <<>>,
                                   pos |-> 0, closes |-> 0])]

\* the FILE objects after fclose(h); nothing is read or written through a closed FILE
fclose(f, h) ==
    IF IsFopened(h)
    THEN [f EXCEPT !.files[h[2]].closes = @ + 1, !.files[h[2]].pos = 0,
                   !.files[h[2]].text = <<>>]
    ELSE [f EXCEPT !.stream_closes = @ + 1]

----------------------------------------------------------------------------
(* parser.c: construction, open, close, free *)

SOURCE_NONE == "SOURCE_NONE"
SOURCE_FILE == "SOURCE_FILE"
SOURCE_STREAM == "SOURCE_STREAM"
SOURCE_STRING == "SOURCE_STRING"

\* what a constructor returns when it returns NULL
NO_INSTANCE == [instance |-> "NULL"]
\* what is left of an instance after csvkit_parser_free or csvkit_writer_free
FREED == [instance |-> "FREED"]

\* a parser or a writer that was constructed and not freed
Alive(inst) == "config" \in DOMAIN inst

\* NULL for a configuration validate_config rejects
csvkit_parser_new_with_config(config) ==
    IF ~validate_config(config) THEN NO_INSTANCE
    ELSE [config |-> config, source_type |-> SOURCE_NONE, file |-> NULL,
          string_data |-> <<>>, string_pos |-> 0, string_len |-> 0,
          row_number |-> 0, error_msg |-> NULL, owns_file |-> FALSE,
          expected_field_count |-> 0]

\* csvkit_close that leaves the FILE pointer in place
csvkit_close_KeepsFile(p) ==
    [p EXCEPT !.source_type = SOURCE_NONE, !.string_data = <<>>,
              !.string_pos = 0, !.string_len = 0]

csvkit_close(p) ==
    [p EXCEPT !.file = NULL, !.source_type = SOURCE_NONE, !.string_data = <<>>,
              !.string_pos = 0, !.string_len = 0]

\* "if (parser->owns_file && parser->file) fclose(parser->file)"
csvkit_close_files(p, f) ==
    IF p.owns_file /\ p.file # NULL THEN fclose(f, p.file) ELSE f

\* csvkit_open_file clearing the counters before it calls fopen
csvkit_open_file_ResetsFirst(p, file) ==
    LET p0 == [csvkit_close(p) EXCEPT !.row_number = 0, !.expected_field_count = 0]
    IN  IF file = NULL
        THEN set_error(p0, "No such file or directory")
        ELSE [p0 EXCEPT !.file = file, !.source_type = SOURCE_FILE, !.owns_file = TRUE]

\* file is what fopen returned
csvkit_open_file(p, file) ==
    IF file = NULL
    THEN set_error(csvkit_close(p), "No such file or directory")
    ELSE [csvkit_close(p) EXCEPT !.file = file, !.source_type = SOURCE_FILE,
                                 !.owns_file = TRUE, !.row_number = 0,
                                 !.expected_field_count = 0]

\* csvkit_open_stream that takes the caller's stream for its own
csvkit_open_stream_Owns(p, stream) ==
    [csvkit_close(p) EXCEPT !.file = stream, !.source_type = SOURCE_STREAM,
                            !.owns_file = TRUE, !.row_number = 0,
                            !.expected_field_count = 0]

csvkit_open_stream(p, stream) ==
    [csvkit_close(p) EXCEPT !.file = stream, !.source_type = SOURCE_STREAM,
                            !.owns_file = FALSE, !.row_number = 0,
                            !.expected_field_count = 0]

\* csvkit_open_string that keeps the row counter and the expected field count
csvkit_open_string_NoReset(p, data) ==
    [csvkit_close(p) EXCEPT !.string_data = data, !.string_pos = 0,
                            !.string_len = Len(data), !.source_type = SOURCE_STRING]

csvkit_open_string(p, data) ==
    [csvkit_close(p) EXCEPT !.string_data = data, !.string_pos = 0,
                            !.string_len = Len(data), !.source_type = SOURCE_STRING,
                            !.row_number = 0, !.expected_field_count = 0]

\* csvkit_close, free(error_msg), free(parser)
csvkit_parser_free(p) == FREED

\* the text of the bound source and the position of the next read_char in it
SourceText(p, f) ==
    IF p.source_type = SOURCE_FILE THEN f.files[p.file[2]].text
    ELSE IF p.source_type = SOURCE_STREAM THEN StreamText
    ELSE p.string_data

SourcePos(p, f) ==
    IF p.source_type = SOURCE_FILE THEN f.files[p.file[2]].pos
    ELSE IF p.source_type = SOURCE_STREAM THEN f.stream_pos
    ELSE p.string_pos

\* the FILE objects once the bound source was read up to pos: fgetc and ungetc move
\* the FILE's position, read_char on a buffer moves string_pos
AfterReads(p, f, pos) ==
    IF p.source_type = SOURCE_FILE THEN [f EXCEPT !.files[p.file[2]].pos = pos]
    ELSE IF p.source_type = SOURCE_STREAM THEN [f EXCEPT !.stream_pos = pos]
    ELSE f

NoScan == [result |-> CSVKIT_OK, fields |-> <<>>, pos |-> 0, in_quotes |-> FALSE,
           pos0 |-> 0, kept |-> FALSE]

----------------------------------------------------------------------------
(* writer.c *)

\* writer.c's validate_config accepting a delimiter that is the quote character
writer_validate_config_SameQuote(config) ==
    /\ config.delimiter \notin {LF, CR}
    /\ config.quote_char \notin {LF, CR}
    /\ config.escape_char \notin {LF, CR}

\* writer.c's validate_config
writer_validate_config(config) ==
    /\ config.delimiter \notin {LF, CR}
    /\ config.delimiter # config.quote_char
    /\ config.quote_char \notin {LF, CR}
    /\ config.escape_char \notin {LF, CR}

\* needs_quoting that forgets the carriage return
needs_quoting_NoCR(field, delimiter, quote_char) ==
    \E i \in 1..Len(field) : field[i] \in {delimiter, quote_char, LF}

needs_quoting(field, delimiter, quote_char) ==
    \E i \in 1..Len(field) : field[i] \in {delimiter, quote_char, LF, CR}

\* PutQuotedChar that doubles the quote instead of writing escape_char before it
PutQuotedChar_Doubled(cf, out, ch) ==
    IF ch = cf.quote_char
    THEN Append(Append(out, cf.quote_char), cf.quote_char)
    ELSE Append(out, ch)

\* one pass of the loop over a quoted field's characters: the fputc calls for *p
PutQuotedChar(cf, out, ch) ==
    IF ch = cf.quote_char
    THEN Append(Append(out, cf.escape_char), cf.quote_char)
    ELSE Append(out, ch)

RECURSIVE PutQuotedChars(_, _, _, _)
PutQuotedChars(cf, field, i, out) ==
    IF i > Len(field) THEN out
    ELSE PutQuotedChars(cf, field, i + 1, PutQuotedChar(cf, out, field[i]))

\* "fields[i] ? fields[i] : \"\""
FieldOrEmpty(f) == IF f = NULL THEN <<>> ELSE f

\* the loop over the fields, from field i on; out is the stream's text
RECURSIVE PutFields(_, _, _, _)
PutFields(cf, fields, i, out) ==
    IF i > Len(fields) THEN out
    ELSE LET out1  == IF i > 1 THEN Append(out, cf.delimiter) ELSE out
             field == FieldOrEmpty(fields[i])
             out2  == IF needs_quoting(field, cf.delimiter, cf.quote_char)
                      THEN Append(PutQuotedChars(cf, field, 1,
                                      Append(out1, cf.quote_char)),
                                  cf.quote_char)
                      ELSE out1 \o field
         IN  PutFields(cf, fields, i + 1, out2)

\* the return code and the stream's text after the call; every fputc succeeds,
\* and fields is an array of Len(fields) pointers, never a null array
csvkit_writer_write_row(w, text, fields) ==
    IF w.file = NULL
    THEN [result |-> CSVKIT_ERROR_INVALID_ARG, text |-> text]
    ELSE [result |-> CSVKIT_OK, text |-> Append(PutFields(w.config, fields, 1, text), LF)]

\* the text a call that fails at its (n+1)-th fputc leaves behind: the row's first n
\* characters; set_error(writer, "Write error")
csvkit_writer_write_row_fails(w, text, fields, n) ==
    LET row == Append(PutFields(w.config, fields, 1, <<>>), LF)
    IN  [result |-> CSVKIT_ERROR_IO, text |-> text \o SubSeq(row, 1, n),
         writer |-> set_error(w, "Write error")]

\* NULL for a configuration validate_config rejects
csvkit_writer_new_with_config(cf) ==
    IF ~writer_validate_config(cf) THEN NO_INSTANCE
    ELSE [config |-> cf, file |-> NULL, owns_file |-> FALSE, error_msg |-> NULL]

csvkit_writer_close(w) == [w EXCEPT !.file = NULL, !.owns_file = FALSE]

\* "if (writer->owns_file && writer->file) fclose(writer->file)"
csvkit_writer_close_files(w, f) ==
    IF w.owns_file /\ w.file # NULL THEN fclose(f, w.file) ELSE f

\* csvkit_writer_open_file closing the sink only once fopen has succeeded
csvkit_writer_open_file_KeepsSink(w, file) ==
    IF file = NULL
    THEN set_error(w, "Failed to open file for writing")
    ELSE [csvkit_writer_close(w) EXCEPT !.file = file, !.owns_file = TRUE]

\* file is what fopen returned
csvkit_writer_open_file(w, file) ==
    IF file = NULL
    THEN set_error(csvkit_writer_close(w), "Failed to open file for writing")
    ELSE [csvkit_writer_close(w) EXCEPT !.file = file, !.owns_file = TRUE]

csvkit_writer_open_stream(w, stream) ==
    [csvkit_writer_close(w) EXCEPT !.file = stream, !.owns_file = FALSE]

\* csvkit_writer_close, free(error_msg), free(writer)
csvkit_writer_free(w) == FREED

\* the text behind the writer's FILE
SinkText(w, f, text) == IF IsFopened(w.file) THEN f.files[w.file[2]].text ELSE text

----------------------------------------------------------------------------
(* parser.c: csvkit_read_row and parse_row_internal, one pass of the loop at a time *)

INITIAL_BUFFER_SIZE == 1024
INITIAL_FIELD_COUNT == 16

\* no csvkit_read_row call in progress
NoLocals == [pc |-> "idle"]

\* the locals at the label read_next_row, once the three allocations are made; start
\* is the source position, entry the parser as csvkit_read_row found it
ReadNextRow(entry, start) ==
    [pc |-> "loop", buffer |-> <<>>, buffer_capacity |-> INITIAL_BUFFER_SIZE,
     fields |-> <<>>, fields_capacity |-> INITIAL_FIELD_COUNT,
     in_quotes |-> FALSE, field_started |-> FALSE, field_was_quoted |-> FALSE,
     c |-> EOF, start |-> start, entry |-> entry]

\* PutChar without the realloc
PutChar_NoGrow(l, c) == [l EXCEPT !.buffer = Append(@, c)]

\* "(*buffer)[buffer_len++] = c", the buffer doubled before it when it is full
PutChar(l, c) ==
    [l EXCEPT !.buffer_capacity = IF Len(l.buffer) >= @ - 1 THEN @ * 2 ELSE @,
              !.buffer = Append(@, c)]

\* "row->fields[row->field_count++] = field_value", the array doubled when it is full
PutField(config, l) ==
    [l EXCEPT !.fields_capacity = IF Len(l.fields) >= @ THEN @ * 2 ELSE @,
              !.fields = Append(@, FieldValue(config, l))]

\* how a pass of the while loop ends: at the loop's test again, after the loop, or
\* with parse_row_internal returning CSVKIT_ERROR_PARSE; pos is the source position
Continue(l, c, pos) == [l |-> [l EXCEPT !.c = c], pos |-> pos]
Break(l, c, pos) == [l |-> [l EXCEPT !.c = c, !.pc = "after"], pos |-> pos]
ReturnParse(l, c, pos) == [l |-> [l EXCEPT !.c = c, !.pc = "parse"], pos |-> pos]

\* the loop's test and one pass of its body
WhilePass(config, data, pos, l) ==
    LET rd == read_char(data, pos)
    IN  IF rd.c = EOF THEN Break(l, EOF, rd.pos)
        ELSE
        LET crlf == ~l.in_quotes /\ rd.c = CR
            nx   == read_char(data, rd.pos)
            pos1 == IF crlf
                    THEN IF nx.c # LF /\ nx.c # EOF
                         THEN unread_char(nx.pos, nx.c)
                         ELSE nx.pos
                    ELSE rd.pos
            c    == IF crlf THEN LF ELSE rd.c
        IN  IF ~l.in_quotes
            THEN IF c = config.quote_char /\ ~l.field_started
                 THEN Continue([l EXCEPT !.in_quotes = TRUE, !.field_started = TRUE,
                                         !.field_was_quoted = TRUE], c, pos1)
                 ELSE IF c = config.delimiter
                 THEN Continue([PutField(config, l) EXCEPT
                                    !.buffer = <<>>, !.field_started = FALSE,
                                    !.field_was_quoted = FALSE], c, pos1)
                 ELSE IF c = LF
                 THEN Break(l, c, pos1)
                 ELSE Continue([PutChar(l, c) EXCEPT !.field_started = TRUE], c, pos1)
            ELSE IF c = config.escape_char
                 THEN LET next == read_char(data, pos1)
                      IN  IF next.c = config.quote_char
                          THEN Continue([PutChar(l, config.quote_char) EXCEPT
                                             !.field_started = TRUE],
                                        config.quote_char, next.pos)
                          ELSE IF next.c = config.escape_char
                          THEN Continue([PutChar(l, config.escape_char) EXCEPT
                                             !.field_started = TRUE],
                                        config.escape_char, next.pos)
                          ELSE IF next.c # EOF
                          THEN IF config.escape_char = config.quote_char
                               THEN IF /\ config.strict_mode
                                       /\ next.c # config.delimiter
                                       /\ next.c # LF
                                       /\ next.c # CR
                                    THEN ReturnParse(l, c, next.pos)
                                    ELSE Continue([l EXCEPT !.in_quotes = FALSE], c,
                                                  unread_char(next.pos, next.c))
                               ELSE Continue([PutChar(PutChar(l, c), next.c) EXCEPT
                                                  !.field_started = TRUE],
                                             next.c, next.pos)
                          ELSE Break(l, c, next.pos)
                 ELSE IF c = config.quote_char /\ config.escape_char # config.quote_char
                 THEN LET l1 == [l EXCEPT !.in_quotes = FALSE]
                      IN  IF config.strict_mode
                          THEN LET next == read_char(data, pos1)
                               IN  IF /\ next.c # EOF
                                      /\ next.c # config.delimiter
                                      /\ next.c # LF
                                      /\ next.c # CR
                                   THEN ReturnParse(l1, c, next.pos)
                                   ELSE Continue(l1, c, unread_char(next.pos, next.c))
                          ELSE Continue(l1, c, pos1)
                 ELSE Continue([PutChar(l, c) EXCEPT !.field_started = TRUE], c, pos1)

\* what parse_row_internal returns once the loop is left: from "Handle last field" on,
\* or the CSVKIT_ERROR_PARSE returned from inside the loop
LastField(config, l) ==
    IF l.pc = "parse"
    THEN [result |-> CSVKIT_ERROR_PARSE, l |-> l]
    ELSE IF NoRowLeft(l.c, Len(l.buffer), Len(l.fields), l.field_started)
    THEN [result |-> CSVKIT_ERROR_EOF, l |-> l]
    ELSE IF l.in_quotes
    THEN [result |-> CSVKIT_ERROR_PARSE, l |-> l]
    ELSE [result |-> CSVKIT_OK,
          l |-> [l EXCEPT !.fields_capacity = IF Len(l.fields) >= @ THEN @ + 1 ELSE @,
                          !.fields = Append(@, FieldValue(config, l))]]

----------------------------------------------------------------------------
(* csvkit.cpp: Parser::Iterator *)

\* a null std::unique_ptr<Row>
nullptr == NoRow

\* no iterator made yet
NoIterator == [pc |-> "none"]

\* Iterator(parser, is_end): nothing is read
Iterator(is_end) == [is_end_ |-> is_end, initialized_ |-> FALSE, current_ |-> nullptr]

\* Parser::read_row throws for every code but CSVKIT_OK and CSVKIT_ERROR_EOF
Throws(code) == code \notin {CSVKIT_OK, CSVKIT_ERROR_EOF}

\* "parser_ && !is_end_": advance() calls Parser::read_row
AdvanceReads(o) == ~o.is_end_

\* the iterator after advance(); code and row are what csvkit_read_row gave when
\* advance() called Parser::read_row, which threw unless it gave a row or end-of-input
advance(o, code, row) ==
    LET o1 == [o EXCEPT !.initialized_ = TRUE]
    IN  IF ~AdvanceReads(o) \/ Throws(code) THEN o1
        ELSE IF code = CSVKIT_ERROR_EOF
        THEN [o1 EXCEPT !.current_ = nullptr, !.is_end_ = TRUE]
        ELSE [o1 EXCEPT !.current_ = row]

\* operator!= reading a row at every comparison
NeedsFirstRead_Always(o) == ~o.is_end_

\* "!initialized_ && !is_end_ && parser_" in operator!=
NeedsFirstRead(o) == ~o.initialized_ /\ ~o.is_end_

----------------------------------------------------------------------------
(* The calls a program makes on a parser *)

\* all texts over S of length at most n
RECURSIVE SeqsUpTo(_, _)
SeqsUpTo(S, n) ==
    IF n = 0 THEN { <<>> }
    ELSE LET shorter == SeqsUpTo(S, n - 1)
         IN  shorter \cup { Append(t, c) : t \in { u \in shorter : Len(u) = n - 1 }, c \in S }

\* the inputs the specification and its tests name
TrimScenario ==
    <<SP, SP, "x", SP, SP, ",", SP, "\"", SP, SP, "y", SP, SP, "\"">>
StrictScenario ==
    <<"a", ",", "b", ",", "c", LF, "a", ",", "b", LF, "d", ",", "e", ",", "f", LF>>
\* a,"b""c",d
DoubledScenario == <<"a", ",", "\"", "b", "\"", "\"", "c", "\"", ",", "d">>
\* a quoted field that is one quote character, and its line terminator
QuoteFieldScenario == <<"\"", "\"", "\"", "\"", LF>>
\* name,age<LF>"Smith, John",30<LF>
SmithScenario ==
    <<"n", "a", "m", "e", ",", "a", "g", "e", LF,
      "\"", "S", "m", "i", "t", "h", ",", SP, "J", "o", "h", "n", "\"", ",", "3", "0", LF>>
\* a quoted field of a delimiter, a LF and a CR, and its line terminator
SpecialsScenario == <<"\"", ",", LF, CR, "\"", LF>>
\* a,"b" with no line terminator
NoNewlineScenario == <<"a", ",", "\"", "b", "\"">>
\* a,b<LF><LF>,<LF>c,d<LF>
SkipStrictScenario ==
    <<"a", ",", "b", LF, LF, ",", LF, "c", ",", "d", LF>>
\* "a"b"c and its line terminator
QuoteAfterClosedScenario == <<"\"", "a", "\"", "b", "\"", "c", LF>>
Scenarios ==
    { TrimScenario, StrictScenario, DoubledScenario, QuoteFieldScenario,
      SmithScenario, SpecialsScenario, NoNewlineScenario, QuoteAfterClosedScenario,
      SkipStrictScenario }

InputsOf(config) == SeqsUpTo(CharsOf(config), MaxLen) \cup Scenarios

Call(op, code) == [op |-> op, code |-> code]

\* what every open does to the history
NewSource ==
    /\ returned' = <<>>
    /\ dropped' = 0
    /\ scan' = NoScan

OpenString(data) ==
    /\ parser' = csvkit_open_string(parser, data)
    /\ fs' = csvkit_close_files(parser, fs)
    /\ ret' = Call("csvkit_open_string", CSVKIT_OK)
    /\ msg_set' = FALSE
    /\ NewSource
    /\ UNCHANGED <<locals, it, writer, input, sink, out_row, written, cfg>>

OpenStream ==
    /\ parser' = csvkit_open_stream(parser, INPUT_STREAM)
    /\ fs' = csvkit_close_files(parser, fs)
    /\ ret' = Call("csvkit_open_stream", CSVKIT_OK)
    /\ msg_set' = FALSE
    /\ NewSource
    /\ UNCHANGED <<locals, it, writer, input, sink, out_row, written, cfg>>

OpenFile(path) ==
    LET closed == csvkit_close_files(parser, fs)
        ok     == fopen_ok(path, "r")
        opened == IF ok THEN fopen(closed, path, "r") ELSE closed
        file   == IF ok THEN FileNo(Len(opened.files)) ELSE NULL
    IN  /\ ok => Len(fs.files) < MaxOpen
        /\ parser' = csvkit_open_file(parser, file)
        /\ fs' = opened
        /\ ret' = Call("csvkit_open_file", IF ok THEN CSVKIT_OK ELSE CSVKIT_ERROR_IO)
        /\ msg_set' = ~ok
        /\ NewSource
        /\ UNCHANGED <<locals, it, writer, input, sink, out_row, written, cfg>>

Close ==
    /\ parser' = csvkit_close(parser)
    /\ fs' = csvkit_close_files(parser, fs)
    /\ ret' = Call("csvkit_close", CSVKIT_OK)
    /\ msg_set' = FALSE
    /\ UNCHANGED <<locals, it, writer, input, sink, out_row, returned, dropped, scan, written, cfg>>

ParserFree ==
    /\ parser' = csvkit_parser_free(parser)
    /\ fs' = csvkit_close_files(parser, fs)
    /\ ret' = Call("csvkit_parser_free", CSVKIT_OK)
    /\ msg_set' = FALSE
    /\ UNCHANGED <<locals, it, writer, input, sink, out_row, returned, dropped, scan, written, cfg>>

\* the call, whoever makes it
csvkit_read_row ==
    IF parser.source_type = SOURCE_NONE
    THEN /\ ret' = Call("csvkit_read_row", CSVKIT_ERROR_INVALID_ARG)
         /\ msg_set' = FALSE
         /\ UNCHANGED <<parser, writer, input, sink, out_row, returned, dropped,
                        scan, written, cfg, fs>>
    ELSE LET text == SourceText(parser, fs)
             pos0 == SourcePos(parser, fs)
             r == read_next_row([parser EXCEPT !.string_data = text, !.string_pos = pos0],
                                0)
             rejected == IF r.kept /\ r.result # CSVKIT_OK THEN 1 ELSE 0
         IN  /\ parser' = IF parser.source_type = SOURCE_STRING THEN r.parser
                          ELSE [r.parser EXCEPT !.string_data = parser.string_data,
                                                !.string_pos = parser.string_pos]
             /\ fs' = AfterReads(parser, fs, r.parser.string_pos)
             /\ out_row' = r.row
             /\ ret' = Call("csvkit_read_row", r.result)
             /\ msg_set' = (r.result = CSVKIT_ERROR_PARSE)
             /\ returned' = IF r.result = CSVKIT_OK
                            THEN Append(returned,
                                     [fields |-> r.row.fields,
                                      row_number |-> r.row.row_number,
                                      before |-> dropped + r.skipped])
                            ELSE returned
             /\ dropped' = dropped + r.skipped + rejected
             /\ scan' = [result |-> r.scan.result, fields |-> r.scan.fields,
                         pos |-> r.scan.pos, in_quotes |-> r.scan.in_quotes,
                         pos0 |-> pos0, kept |-> r.kept]
             /\ UNCHANGED <<writer, input, sink, written, cfg>>

ReadRow == csvkit_read_row /\ UNCHANGED <<locals, it>>

\* csvkit_read_row when its first allocation fails: nothing is read
ReadRowNoMemory ==
    /\ parser.source_type # SOURCE_NONE
    /\ parser' = set_error(parser, "Out of memory")
    /\ out_row' = NoRow
    /\ ret' = Call("csvkit_read_row", CSVKIT_ERROR_MEMORY)
    /\ msg_set' = TRUE
    /\ UNCHANGED <<locals, it, writer, input, sink, returned, dropped, scan, written, cfg, fs>>

InitWith(config, data) ==
    /\ cfg = config
    /\ parser = csvkit_parser_new_with_config(cfg)
    /\ writer = csvkit_writer_new_with_config(cfg)
    /\ input = data
    /\ sink = <<>>
    /\ out_row = NoRow
    /\ ret = Call("new", CSVKIT_OK)
    /\ returned = <<>>
    /\ dropped = 0
    /\ scan = NoScan
    /\ written = <<>>
    /\ fs = NoFiles
    /\ msg_set = FALSE
    /\ locals = NoLocals
    /\ it = NoIterator

Init == \E config \in Configs : \E data \in InputsOf(config) : InitWith(config, data)

Next ==
    \/ OpenString(input)
    \/ ReadRow
    \/ Close

Spec == Init /\ [][Next]_vars

----------------------------------------------------------------------------
(* The calls of a program that writes rows and then decodes what it wrote *)

FieldSize(f) == IF f = NULL THEN 1 ELSE Len(f) + 1

\* the fields (null or a text over S) of size k: k - 1 characters
FieldsOfSize(S, k) ==
    { f \in SeqsUpTo(S, k - 1) : Len(f) = k - 1 } \cup (IF k = 1 THEN { NULL } ELSE {})

\* the rows of one or more fields whose sizes add up to n
RECURSIVE RowsOfSize(_, _)
RowsOfSize(S, n) ==
    IF n = 0 THEN {}
    ELSE { <<f>> : f \in FieldsOfSize(S, n) }
         \cup UNION { { <<f>> \o r : f \in FieldsOfSize(S, k), r \in RowsOfSize(S, n - k) } :
                      k \in 1..(n - 1) }

RECURSIVE RowSize(_)
RowSize(row) ==
    IF row = <<>> THEN 0 ELSE FieldSize(Head(row)) + RowSize(Tail(row))

\* a row without fields costs as much as a row of one empty field
RowCost(row) == IF row = <<>> THEN 1 ELSE RowSize(row)

RECURSIVE Used(_)
Used(rows) == IF rows = <<>> THEN 0 ELSE RowCost(Head(rows)) + Used(Tail(rows))

\* the row the specification writes: a | b,c | d"e | f<LF>g
WriteScenario ==
    << <<"a">>, <<"b", ",", "c">>, <<"d", "\"", "e">>, <<"f", LF, "g">> >>

\* the round-trip configurations: the default one, and it with a backslash escape
RTConfigs ==
    { csvkit_config_default, [csvkit_config_default EXCEPT !.escape_char = "\\"] }

\* for each round-trip configuration, the rows of each cost up to MaxText
RowTable ==
    [cf \in RTConfigs |->
        [n \in 1..MaxText |->
            RowsOfSize(CharsOf(cf), n) \cup (IF n = 1 THEN { <<>> } ELSE {})]]

\* the rows a caller may still write: those that fit in what is left of MaxText,
\* and, as the first row, the specification's
RowsToWrite ==
    UNION { RowTable[writer.config][n] : n \in 1..(MaxText - Used(written)) }
        \cup (IF written = <<>> THEN { WriteScenario } ELSE {})

WriterOpenStream ==
    /\ writer' = csvkit_writer_open_stream(writer, STREAM)
    /\ fs' = csvkit_writer_close_files(writer, fs)
    /\ ret' = Call("csvkit_writer_open_stream", CSVKIT_OK)
    /\ msg_set' = FALSE
    /\ UNCHANGED <<locals, it, parser, input, sink, out_row, returned, dropped, scan, written, cfg>>

WriterOpenFile(path) ==
    LET closed == csvkit_writer_close_files(writer, fs)
        ok     == fopen_ok(path, "w")
        opened == IF ok THEN fopen(closed, path, "w") ELSE closed
        file   == IF ok THEN FileNo(Len(opened.files)) ELSE NULL
    IN  /\ ok => Len(fs.files) < MaxOpen
        /\ writer' = csvkit_writer_open_file(writer, file)
        /\ fs' = opened
        /\ ret' = Call("csvkit_writer_open_file",
                       IF ok THEN CSVKIT_OK ELSE CSVKIT_ERROR_IO)
        /\ msg_set' = ~ok
        /\ UNCHANGED <<locals, it, parser, input, sink, out_row, returned, dropped, scan, written,
                       cfg>>

WriterClose ==
    /\ writer' = csvkit_writer_close(writer)
    /\ fs' = csvkit_writer_close_files(writer, fs)
    /\ ret' = Call("csvkit_writer_close", CSVKIT_OK)
    /\ msg_set' = FALSE
    /\ UNCHANGED <<locals, it, parser, input, sink, out_row, returned, dropped, scan, written, cfg>>

WriterFree ==
    /\ writer' = csvkit_writer_free(writer)
    /\ fs' = csvkit_writer_close_files(writer, fs)
    /\ ret' = Call("csvkit_writer_free", CSVKIT_OK)
    /\ msg_set' = FALSE
    /\ UNCHANGED <<locals, it, parser, input, sink, out_row, returned, dropped, scan, written, cfg>>

\* the sink and the FILE objects once the text behind the writer's FILE is text
Wrote(text) ==
    IF IsFopened(writer.file)
    THEN /\ fs' = [fs EXCEPT !.files[writer.file[2]].text = text]
         /\ sink' = sink
    ELSE /\ sink' = text
         /\ fs' = fs

WriteRow(fields) ==
    LET w == csvkit_writer_write_row(writer, SinkText(writer, fs, sink), fields)
    IN  /\ Wrote(w.text)
        /\ ret' = Call("csvkit_writer_write_row", w.result)
        /\ msg_set' = FALSE
        /\ written' = IF w.result = CSVKIT_OK THEN Append(written, fields) ELSE written
        /\ UNCHANGED <<locals, it, parser, writer, input, out_row, returned, dropped, scan, cfg>>

\* csvkit_writer_write_row when the fputc after n characters of the row fails
WriteRowFails(fields, n) ==
    LET w == csvkit_writer_write_row_fails(writer, SinkText(writer, fs, sink), fields, n)
    IN  /\ writer.file # NULL
        /\ Wrote(w.text)
        /\ writer' = w.writer
        /\ ret' = Call("csvkit_writer_write_row", w.result)
        /\ msg_set' = TRUE
        /\ UNCHANGED <<locals, it, parser, input, out_row, returned, dropped, scan, written, cfg>>

InitRT == \E cf \in RTConfigs : InitWith(cf, <<>>)

\* the writer is used while the parser is unbound; the parser is opened on the text
\* written once the writer is closed
NextRT ==
    \/ parser.source_type = SOURCE_NONE /\ WriterOpenStream
    \/ parser.source_type = SOURCE_NONE /\ \E fields \in RowsToWrite : WriteRow(fields)
    \/ parser.source_type = SOURCE_NONE /\ WriterClose
    \/ writer.file = NULL /\ OpenString(sink)
    \/ ReadRow

SpecRT == InitRT /\ [][NextRT]_vars

----------------------------------------------------------------------------
(* The calls of a program that constructs, binds, rebinds, uses and frees *)

\* the characters a caller may put in a configuration
LifeChars == {",", "\"", LF, CR}

\* the configurations handed to the constructors, the rejected ones included: every
\* dialect over LifeChars, and the default dialect with every skip_empty_rows and
\* strict_mode
LifeConfigs ==
    { [csvkit_config_default EXCEPT !.delimiter = d, !.quote_char = q, !.escape_char = e] :
      d \in LifeChars, q \in LifeChars, e \in LifeChars }
    \cup { [csvkit_config_default EXCEPT !.skip_empty_rows = s, !.strict_mode = m] :
           s \in BOOLEAN, m \in BOOLEAN }

\* the buffer handed to csvkit_open_string: an empty line, a row of two fields, a
\* quoted field left open
LifeInput == <<LF, "a", ",", "b", LF, "\"">>

\* the rows handed to csvkit_writer_write_row
LifeRows == { << <<"a">> >> }

InitLife == \E config \in LifeConfigs : InitWith(config, LifeInput)

ParserCalls ==
    {"new", "csvkit_open_string", "csvkit_open_stream", "csvkit_open_file",
     "csvkit_read_row", "csvkit_close", "csvkit_parser_free"}

WriterCalls ==
    {"new", "csvkit_writer_open_stream", "csvkit_writer_open_file",
     "csvkit_writer_write_row", "csvkit_writer_close", "csvkit_writer_free"}

\* the parser and the writer share nothing: a run is the calls on one of them
OnParser == Alive(parser) /\ ret.op \in ParserCalls
OnWriter == Alive(writer) /\ ret.op \in WriterCalls

NextLife ==
    \/ OnParser /\ OpenString(input)
    \/ OnParser /\ OpenStream
    \/ OnParser /\ \E path \in ReadPaths : OpenFile(path)
    \/ OnParser /\ ReadRow
    \/ OnParser /\ ReadRowNoMemory
    \/ OnParser /\ Close
    \/ OnParser /\ ParserFree
    \/ OnWriter /\ WriterOpenStream
    \/ OnWriter /\ \E path \in WritePaths : WriterOpenFile(path)
    \/ OnWriter /\ \E fields \in LifeRows :
           Used(written) + RowCost(fields) <= MaxText /\ WriteRow(fields)
    \/ OnWriter /\ \E fields \in LifeRows : \E n \in 0..Len(fields[1]) :
           Len(SinkText(writer, fs, sink)) + n < MaxText /\ WriteRowFails(fields, n)
    \/ OnWriter /\ WriterClose
    \/ OnWriter /\ WriterFree

SpecLife == InitLife /\ [][NextLife]_vars

----------------------------------------------------------------------------
(* csvkit_read_row on a buffer, followed pass by pass *)

\* a csvkit_read_row call is in progress
Scanning == locals.pc # "idle"

\* the locals once csvkit_read_row has returned
Left(entry) == [pc |-> "idle", entry |-> entry]

\* csvkit_read_row up to the first test of the loop in parse_row_internal
EnterReadRow ==
    /\ ~Scanning
    /\ IF parser.source_type = SOURCE_NONE
       THEN /\ ret' = Call("csvkit_read_row", CSVKIT_ERROR_INVALID_ARG)
            /\ msg_set' = FALSE
            /\ UNCHANGED <<out_row, locals>>
       ELSE /\ out_row' = NoRow
            /\ locals' = ReadNextRow(parser, parser.string_pos)
            /\ UNCHANGED <<ret, msg_set>>
    /\ UNCHANGED <<parser, writer, input, sink, returned, dropped, scan, written, cfg, fs,
                   it>>

\* the loop's test and one pass of its body
PassLoop ==
    /\ locals.pc = "loop"
    /\ LET w == WhilePass(parser.config, parser.string_data, parser.string_pos, locals)
       IN  /\ parser' = [parser EXCEPT !.string_pos = w.pos]
           /\ locals' = w.l
    /\ UNCHANGED <<writer, input, sink, out_row, ret, returned, dropped, scan, written,
                   cfg, fs, msg_set, it>>

\* from the end of the loop to csvkit_read_row's return, or to the label
\* read_next_row again
LeaveReadRow ==
    /\ locals.pc \in {"after", "parse"}
    /\ LET r == LastField(parser.config, locals)
       IN  IF r.result # CSVKIT_OK
           THEN /\ parser' = IF r.result = CSVKIT_ERROR_PARSE
                             THEN set_error(parser, "Unclosed quoted field")
                             ELSE parser
                /\ ret' = Call("csvkit_read_row", r.result)
                /\ msg_set' = (r.result = CSVKIT_ERROR_PARSE)
                /\ locals' = Left(locals.entry)
                /\ UNCHANGED out_row
           ELSE LET p2  == CountRow(parser)
                    row == Row(r.l.fields, p2.row_number)
                IN  IF SkipsRow(parser.config, row)
                    THEN /\ parser' = p2
                         /\ locals' = ReadNextRow(locals.entry, parser.string_pos)
                         /\ UNCHANGED <<ret, msg_set, out_row>>
                    ELSE LET k == StrictCheck(p2, row)
                         IN  /\ parser' = k.parser
                             /\ ret' = Call("csvkit_read_row", k.result)
                             /\ msg_set' = (k.result = CSVKIT_ERROR_PARSE)
                             /\ out_row' = k.row
                             /\ locals' = Left(locals.entry)
    /\ UNCHANGED <<writer, input, sink, returned, dropped, scan, written, cfg, fs, it>>

\* trim_whitespace acts on a field once it is closed and never on the loop: the
\* configurations followed pass by pass are those without it
ScanConfigs == { c \in Configs : ~c.trim_whitespace }

InitScan == \E c \in ScanConfigs : \E data \in InputsOf(c) : InitWith(c, data)

\* the buffer is bound once and read to its end and beyond
NextScan ==
    \/ parser.source_type = SOURCE_NONE /\ OpenString(input)
    \/ EnterReadRow
    \/ PassLoop
    \/ LeaveReadRow

\* a call, once made, runs on: nothing but the call itself moves it
SpecScan ==
    InitScan /\ [][NextScan]_vars /\ WF_vars(PassLoop) /\ WF_vars(LeaveReadRow)

----------------------------------------------------------------------------
(* csvkit_read_row on rows that outgrow the field buffer and the field list *)

\* how many times the longest field doubles the buffer, and the most fields double
\* the field list
Doublings == 2

\* the buffer length and the field count at which the last of the doublings happens
LastBufferFill == INITIAL_BUFFER_SIZE * 2^(Doublings - 1)
LastFieldsFill == INITIAL_FIELD_COUNT * 2^(Doublings - 1)

\* unit written n times
Rep(unit, n) == [i \in 1..(n * Len(unit)) |-> unit[((i - 1) % Len(unit)) + 1]]

\* inside quotes, the two characters the loop takes in one pass: a doubled quote when
\* the escape character is the quote character (one write), the escape character and
\* a character it does not escape otherwise (two writes)
EscapePair(c) ==
    IF c.escape_char = c.quote_char THEN <<c.quote_char, c.quote_char>>
    ELSE <<c.escape_char, "a">>

\* the pairs it takes to pass LastBufferFill characters
PairsToFill(c) ==
    IF c.escape_char = c.quote_char THEN LastBufferFill + 1
    ELSE (LastBufferFill \div 2) + 1

\* a field one character short of the first doubling and one past the last doubling,
\* each followed by a short row; a quoted field of escape pairs, at an even and at an
\* odd offset; rows of one field less than the list's first capacity up to one more
\* than the last doubling needs, with and without text after the last delimiter; a
\* row of both
GrowInputs(c) ==
    { Rep(<<"a">>, n) \o <<LF, "a">> :
        n \in {INITIAL_BUFFER_SIZE - 1, LastBufferFill + 1} }
    \cup { <<c.quote_char>> \o pre \o Rep(EscapePair(c), PairsToFill(c))
               \o <<c.quote_char, LF>> :
           pre \in {<<>>, <<"a">>} }
    \cup { Rep(<<"a", c.delimiter>>, n) \o last :
           n \in (INITIAL_FIELD_COUNT - 1)..(LastFieldsFill + 1),
           last \in {<<>>, <<"a">>} }
    \cup { Rep(<<"a", c.delimiter>>, INITIAL_FIELD_COUNT + 1) \o <<c.quote_char>>
               \o Rep(EscapePair(c), (INITIAL_BUFFER_SIZE \div 2) + 1) }

\* the configurations followed on these rows
GrowConfigs == { c \in ScanConfigs : ~c.strict_mode }

InitGrow == \E c \in GrowConfigs : \E data \in GrowInputs(c) : InitWith(c, data)

NextGrow ==
    \/ parser.source_type = SOURCE_NONE /\ OpenString(input)
    \/ EnterReadRow
    \/ PassLoop
    \/ LeaveReadRow

SpecGrow == InitGrow /\ [][NextGrow]_vars

----------------------------------------------------------------------------
(* The loop over a Parser: it = begin(); it != end(); ++it, with the row in its body *)

\* what a call of an iterator's operator leaves untouched when advance() is not
\* called or does not read
NoRead ==
    UNCHANGED <<parser, writer, input, sink, out_row, ret, returned, dropped, scan,
                written, cfg, fs, msg_set>>

\* the loop's iterator and position after an operator whose advance() read (code,
\* row); next is where the loop goes on unless Parser::read_row threw
Advanced(code, row, next) ==
    [it EXCEPT !.obj = advance(@, code, row),
               !.pc = IF Throws(code) THEN "thrown" ELSE next,
               !.reads = @ + 1]

\* it = begin()
Begin ==
    /\ it.pc = "none"
    /\ it' = [pc |-> "test", obj |-> Iterator(FALSE), visited |-> <<>>, reads |-> 0]
    /\ UNCHANGED locals
    /\ NoRead

\* "is_end_ != other.is_end_" against end(): where the loop goes on
Compared(o) == IF o.is_end_ # Iterator(TRUE).is_end_ THEN "body" ELSE "done"

\* it != end(), by an iterator that has not read yet
NotEqualFirst ==
    /\ it.pc = "test"
    /\ NeedsFirstRead(it.obj)
    /\ csvkit_read_row
    /\ it' = Advanced(ret'.code, out_row', Compared(advance(it.obj, ret'.code, out_row')))
    /\ UNCHANGED locals

\* it != end(), otherwise
NotEqual ==
    /\ it.pc = "test"
    /\ ~NeedsFirstRead(it.obj)
    /\ it' = [it EXCEPT !.pc = Compared(it.obj)]
    /\ UNCHANGED locals
    /\ NoRead

\* the body's *it, on an iterator that has read (in this loop a comparison comes
\* first, and operator* calls advance() only before any read): the row it visits
Dereference ==
    /\ it.pc = "body"
    /\ it.obj.initialized_
    /\ it' = [it EXCEPT !.pc = "incr", !.visited = Append(@, it.obj.current_)]
    /\ UNCHANGED locals
    /\ NoRead

\* ++it, on an iterator that is not at its end (in this loop it has just compared
\* unequal to end()): advance() reads
Increment ==
    /\ it.pc = "incr"
    /\ AdvanceReads(it.obj)
    /\ csvkit_read_row
    /\ it' = Advanced(ret'.code, out_row', "test")
    /\ UNCHANGED locals

\* the configurations iterated: the default dialect with every flag
IterConfigs == { c \in Configs : c.escape_char = c.quote_char }

InitIter == \E c \in IterConfigs : \E data \in InputsOf(c) : InitWith(c, data)

\* the parser is opened, or not, before the loop begins
NextIter ==
    \/ it.pc = "none" /\ parser.source_type = SOURCE_NONE /\ OpenString(input)
    \/ Begin
    \/ NotEqualFirst
    \/ NotEqual
    \/ Dereference
    \/ Increment

SpecIter == InitIter /\ [][NextIter]_vars

----------------------------------------------------------------------------
(* Vocabulary of the properties *)

config == parser.config

\* the last call was a csvkit_read_row on a bound parser
AfterRead == ret.op = "csvkit_read_row" /\ ret.code # CSVKIT_ERROR_INVALID_ARG

\* the last csvkit_read_row was the first one after the open
FirstRead == AfterRead /\ scan.pos0 = 0

IsPrefix(s, t) == Len(s) <= Len(t) /\ s = SubSeq(t, 1, Len(s))

RECURSIVE Flat(_)
Flat(ss) == IF ss = <<>> THEN <<>> ELSE Head(ss) \o Flat(Tail(ss))

AllEmpty(fields) == \A i \in 1..Len(fields) : fields[i] = <<>>

\* a text that opens a quoted field and never meets quote_char or escape_char again
OpenQuoteShape(cf, t) ==
    /\ Len(t) >= 1
    /\ t[1] = cf.quote_char
    /\ \A i \in 2..Len(t) : t[i] \notin {cf.quote_char, cf.escape_char}

\* t is a quoted field closed at j and followed by a character that is neither the
\* delimiter nor a line terminator (nor, when the quote doubles as the escape, a quote)
StrayAt(cf, t, j) ==
    /\ t[1] = cf.quote_char
    /\ j \in 2..(Len(t) - 1)
    /\ t[j] = cf.quote_char
    /\ \A i \in 2..(j - 1) : t[i] \notin {cf.quote_char, cf.escape_char}
    /\ t[j + 1] \notin {cf.delimiter, LF, CR}
    /\ (cf.escape_char = cf.quote_char => t[j + 1] # cf.quote_char)

StrayShape(cf, t) == \E j \in 1..Len(t) : StrayAt(cf, t, j)

\* the rows of a text without quotes: one per line terminator (LF, CR LF or a lone
\* CR), and one more for a last line that has none
NumLines(t) ==
    Cardinality({ i \in 1..Len(t) :
                    \/ t[i] = LF
                    \/ t[i] = CR /\ (i = Len(t) \/ t[i + 1] # LF) })
    + (IF Len(t) > 0 /\ t[Len(t)] \notin {LF, CR} THEN 1 ELSE 0)

\* the rows successive csvkit_read_row calls hand out, up to the first end-of-input
RECURSIVE ReadAll(_, _)
ReadAll(p, acc) ==
    LET r == read_next_row(p, 0)
    IN  IF r.result = CSVKIT_ERROR_EOF THEN acc
        ELSE ReadAll(r.parser,
                 IF r.result = CSVKIT_OK
                 THEN Append(acc, [fields |-> r.row.fields, row_number |-> r.row.row_number])
                 ELSE acc)

RowsOf(cf, data) == ReadAll(csvkit_open_string(csvkit_parser_new_with_config(cf), data), <<>>)

Handed == [k \in 1..Len(returned) |->
              [fields |-> returned[k].fields, row_number |-> returned[k].row_number]]

NotAllEmpty(row) == ~AllEmpty(row.fields)

----------------------------------------------------------------------------
(* Properties of the decoder, under Spec *)

\* C3 (as the specification states it): with trim_whitespace on, the input
\*   `  x  , "  y  "` is decoded as the two fields `x` and `  y  `: the unquoted field
\*   trimmed, the quoted one kept as it is and without its quote characters.
C3_TrimScenarioFields ==
    (config.trim_whitespace /\ input = TrimScenario /\ FirstRead)
        => /\ ret.code = CSVKIT_OK
           /\ out_row.fields = << <<"x">>, <<SP, SP, "y", SP, SP>> >>

\* C5: when the input ends while a quoted field is still open, csvkit_read_row
\*   returns CSVKIT_ERROR_PARSE and hands out no row, in every dialect and with
\*   strict_mode on or off.
C5_OpenQuoteAtEndIsParseError ==
    /\ (AfterRead /\ scan.in_quotes /\ parser.string_pos = Len(input))
           => (ret.code = CSVKIT_ERROR_PARSE /\ out_row.null)
    /\ (FirstRead /\ OpenQuoteShape(config, input))
           => (ret.code = CSVKIT_ERROR_PARSE /\ out_row.null)

C5_Witness ==
    /\ FirstRead
    /\ OpenQuoteShape(config, input)
    /\ Len(input) >= 2
    /\ config.escape_char # config.quote_char
    /\ ret.code = CSVKIT_ERROR_PARSE

\* C6: in strict mode all rows handed out since the last open have the field count of
\*   the first one, which is the expected field count; a decoded row is handed out
\*   exactly when its field count is the expected one, and otherwise csvkit_read_row
\*   returns CSVKIT_ERROR_PARSE with no row; rows handed out before stay as they were.
C6_StrictFieldCount ==
    config.strict_mode =>
        /\ \A k \in 1..Len(returned) :
               Len(returned[k].fields) = Len(returned[1].fields)
        /\ returned # <<>> => parser.expected_field_count = Len(returned[1].fields)
        /\ (AfterRead /\ scan.kept) =>
               /\ ret.code = CSVKIT_OK <=> Len(scan.fields) = parser.expected_field_count
               /\ ret.code # CSVKIT_OK => (ret.code = CSVKIT_ERROR_PARSE /\ out_row.null)

C6_Witness ==
    /\ config.strict_mode
    /\ input = StrictScenario
    /\ Len(returned) = 2
    /\ dropped = 1
    /\ ret.code = CSVKIT_OK

\* C7: in strict mode a closing quote followed by a character that is neither the
\*   delimiter nor a line terminator makes csvkit_read_row return CSVKIT_ERROR_PARSE,
\*   whether or not escape_char is quote_char; with strict_mode off the only parse
\*   error is a quoted field open at the end of the input, and the characters after
\*   the closing quote are appended to the field.
C7_StrayAfterClosingQuote ==
    /\ (AfterRead /\ ~config.strict_mode /\ ret.code = CSVKIT_ERROR_PARSE)
           => (scan.in_quotes /\ parser.string_pos = Len(input))
    /\ \A j \in 1..Len(input) :
           (FirstRead /\ StrayAt(config, input, j)) =>
               IF config.strict_mode
               THEN ret.code = CSVKIT_ERROR_PARSE /\ out_row.null
               ELSE /\ ret.code \in {CSVKIT_OK, CSVKIT_ERROR_PARSE}
                    /\ ret.code = CSVKIT_OK =>
                           IsPrefix(SubSeq(input, 2, j - 1) \o <<input[j + 1]>>,
                                    out_row.fields[1])

C7_Witness ==
    /\ FirstRead
    /\ config.strict_mode
    /\ config.escape_char # config.quote_char
    /\ StrayShape(config, input)
    /\ ret.code = CSVKIT_ERROR_PARSE

\* C8 (as the specification states it): the k-th row handed out since the last open
\*   has row_number k.
C8_RowNumberIsIndex ==
    \A k \in 1..Len(returned) : returned[k].row_number = k

\* C8 (amended): the row_number of the k-th row handed out since the last open is k
\*   plus the number of rows decoded before it and not handed out (elided by
\*   skip_empty_rows, or rejected for their field count in strict mode); it is k when
\*   skip_empty_rows and strict_mode are off.
C8_RowNumberCountsDecodedRows ==
    \A k \in 1..Len(returned) :
        /\ returned[k].row_number = k + returned[k].before
        /\ (~config.skip_empty_rows /\ ~config.strict_mode) => returned[k].row_number = k

C8_Witness ==
    /\ config.skip_empty_rows
    /\ Len(returned) = 1
    /\ returned[1].row_number = 2
    /\ ret.code = CSVKIT_OK

\* C9: with skip_empty_rows off, csvkit_read_row returns CSVKIT_ERROR_EOF exactly when
\*   the source was exhausted when it was called; so an empty source gives end-of-input
\*   at once, and a text without quotes gives one row per line, with no extra row for
\*   its last line terminator.
C9_EndOfInputIffExhausted ==
    (AfterRead /\ ~config.skip_empty_rows) =>
        /\ ret.code = CSVKIT_ERROR_EOF <=> scan.pos0 = Len(input)
        /\ (/\ ret.code = CSVKIT_ERROR_EOF
            /\ ~config.strict_mode
            /\ \A i \in 1..Len(input) : input[i] # config.quote_char)
               => Len(returned) = NumLines(input)

C9_Witness ==
    /\ AfterRead
    /\ ~config.skip_empty_rows
    /\ ret.code = CSVKIT_ERROR_EOF
    /\ Len(input) = 2
    /\ input[2] = LF
    /\ Len(returned) = 1

\* C10 (as the specification states it): an empty line is decoded as one empty field;
\*   with skip_empty_rows on no row of empty fields is handed out, and the rows handed
\*   out are those handed out with skip_empty_rows off, less the rows of empty fields.
C10_SkipIsFilter ==
    /\ (AfterRead /\ scan.pos0 < Len(input) /\ input[scan.pos0 + 1] = LF
            /\ ~config.skip_empty_rows)
           => (scan.result = CSVKIT_OK /\ scan.fields = << <<>> >>)
    /\ config.skip_empty_rows =>
           /\ \A k \in 1..Len(returned) : ~AllEmpty(returned[k].fields)
           /\ LET off == SelectSeq(RowsOf([config EXCEPT !.skip_empty_rows = FALSE],
                                          input), NotAllEmpty)
              IN  /\ IsPrefix(Handed, off)
                  /\ (AfterRead /\ ret.code = CSVKIT_ERROR_EOF) => Handed = off

\* C10 (amended): the same, for strict_mode off.
C10_SkipIsFilterUnlessStrict ==
    /\ (AfterRead /\ scan.pos0 < Len(input) /\ input[scan.pos0 + 1] = LF
            /\ ~config.skip_empty_rows)
           => (scan.result = CSVKIT_OK /\ scan.fields = << <<>> >>)
    /\ config.skip_empty_rows =>
           /\ \A k \in 1..Len(returned) : ~AllEmpty(returned[k].fields)
           /\ ~config.strict_mode =>
                  LET off == SelectSeq(RowsOf([config EXCEPT !.skip_empty_rows = FALSE],
                                              input), NotAllEmpty)
                  IN  /\ IsPrefix(Handed, off)
                      /\ (AfterRead /\ ret.code = CSVKIT_ERROR_EOF) => Handed = off

C10_Witness ==
    /\ config.skip_empty_rows
    /\ ~config.strict_mode
    /\ AfterRead
    /\ ret.code = CSVKIT_ERROR_EOF
    /\ input = <<LF, "a">>
    /\ Len(returned) = 1

\* C12: with escape_char = quote_char, inside a quoted field two quote characters in
\*   a row give one quote character in the field, which stays open, and a quote
\*   character before any other character closes the field, that character being
\*   decoded as it is outside quotes; a,"b""c",d gives the fields a, b"c and d.
C12_DoubledQuote ==
    (FirstRead /\ config.escape_char = config.quote_char) =>
        LET q == config.quote_char
        IN  /\ input = DoubledScenario =>
                   /\ ret.code = CSVKIT_OK
                   /\ out_row.fields = << <<"a">>, <<"b", q, "c">>, <<"d">> >>
            /\ input = QuoteFieldScenario =>
                   (ret.code = CSVKIT_OK /\ out_row.fields = << <<q>> >>)
            /\ input = <<q, q, q>> =>
                   (scan.in_quotes /\ ret.code = CSVKIT_ERROR_PARSE)
            /\ (/\ Len(input) = 3 /\ input[1] = q /\ input[2] = q /\ input[3] # q
                /\ ~config.trim_whitespace
                /\ config.strict_mode => input[3] \in {config.delimiter, LF, CR})
                   => LET alone == RowsOf(config, <<input[3]>>)
                      IN  IF alone = <<>> THEN ret.code = CSVKIT_ERROR_EOF
                          ELSE /\ ret.code = CSVKIT_OK
                               /\ out_row.fields = alone[1].fields

C12_Witness ==
    /\ FirstRead
    /\ config.escape_char = config.quote_char
    /\ input = DoubledScenario
    /\ ret.code = CSVKIT_OK
    /\ Len(out_row.fields) = 3

RECURSIVE RowEndingLFs(_, _, _, _)
RowEndingLFs(cf, data, pos, acc) ==
    LET r == parse_row_internal(cf, data, pos)
    IN  IF r.result = CSVKIT_ERROR_EOF THEN acc
        ELSE RowEndingLFs(cf, data, r.pos,
                 IF /\ r.result = CSVKIT_OK
                    /\ r.pos >= 1
                    /\ data[r.pos] = LF
                    /\ (r.pos = 1 \/ data[r.pos - 1] # CR)
                 THEN acc \cup {r.pos} ELSE acc)

\* data with CR LF in the place of each of those LFs
WithCRLF(cf, data) ==
    LET ends == RowEndingLFs(cf, data, 0, {})
    IN  Flat([i \in 1..Len(data) |-> IF i \in ends THEN <<CR, LF>> ELSE <<data[i]>>])

\* in a text without quotes, where the row that starts after position p ends: on its
\* first LF or CR, or on the LF that follows that CR, or with the text
RowEnd(t, p) ==
    LET T == { i \in (p + 1)..Len(t) : t[i] \in {LF, CR} }
    IN  IF T = {} THEN Len(t)
        ELSE LET i == SetMin(T)
             IN  IF t[i] = CR /\ i < Len(t) /\ t[i + 1] = LF THEN i + 1 ELSE i

\* C14: outside quoted fields CR LF is one row terminator: the input with CR LF in the
\*   place of every LF that ends a row decodes to the same rows, row numbers included;
\*   and a CR that no LF follows ends the row without consuming the character after
\*   it, which is the first character of the next row.
C14_CRLFIsOneTerminator ==
    /\ FirstRead => RowsOf(config, WithCRLF(config, input)) = RowsOf(config, input)
    /\ (/\ AfterRead
        /\ ~config.skip_empty_rows
        /\ scan.result = CSVKIT_OK
        /\ \A i \in 1..Len(input) : input[i] # config.quote_char)
           => parser.string_pos = RowEnd(input, scan.pos0)
    /\ (AfterRead /\ ret.code = CSVKIT_ERROR_EOF /\ input = <<"a", CR, "b">>)
           => [k \in 1..Len(returned) |-> returned[k].fields]
                  = << << <<"a">> >>, << <<"b">> >> >>

C14_Witness ==
    /\ AfterRead
    /\ ~config.skip_empty_rows
    /\ input = <<LF, CR, "a">>
    /\ WithCRLF(config, input) = <<CR, LF, CR, "a">>
    /\ ret.code = CSVKIT_ERROR_EOF
    /\ Len(returned) = 3
    /\ returned[3].fields = << <<"a">> >>

\* C20 (as the specification states it): when the input ends right after an escape
\*   character inside a quoted field, csvkit_read_row ends the row with what was
\*   accumulated; so a,"b" with no line terminator gives the row a | b when
\*   escape_char = quote_char as it does when they differ, and no parse error.
C20_EOFAfterEscapeEndsRow ==
    /\ (FirstRead /\ input = NoNewlineScenario) =>
           /\ ret.code = CSVKIT_OK
           /\ out_row.fields = << <<"a">>, <<"b">> >>
    /\ (/\ FirstRead
        /\ Len(input) >= 2
        /\ input[1] = config.quote_char
        /\ input[Len(input)] = config.escape_char
        /\ \A i \in 2..(Len(input) - 1) : input[i] = "a")
           => /\ ret.code = CSVKIT_OK
              /\ out_row.fields = << SubSeq(input, 2, Len(input) - 1) >>

----------------------------------------------------------------------------
(* Properties of the encoder and of the round trip, under SpecRT *)

\* the text of a field as section 4.3 of the specification describes it
TextOfField(cf, f) ==
    IF \E i \in 1..Len(f) : f[i] \in {cf.delimiter, cf.quote_char, LF, CR}
    THEN <<cf.quote_char>>
         \o Flat([i \in 1..Len(f) |->
                     IF f[i] = cf.quote_char THEN <<cf.escape_char, f[i]>> ELSE <<f[i]>>])
         \o <<cf.quote_char>>
    ELSE f

\* a null field stands for the empty text
Texts(row) == [i \in 1..Len(row) |-> IF row[i] = NULL THEN <<>> ELSE row[i]]

TextOfRow(cf, row) ==
    Flat([i \in 1..Len(row) |->
             (IF i > 1 THEN <<cf.delimiter>> ELSE <<>>) \o TextOfField(cf, Texts(row)[i])])
    \o <<LF>>

\* the parser was opened on the text the writer produced, every row of which has a field
Decoding ==
    /\ parser.source_type = SOURCE_STRING
    /\ \A k \in 1..Len(written) : Len(written[k]) >= 1

Printable(row) == \A i \in 1..Len(row) : \A j \in 1..Len(Texts(row)[i]) :
                      Texts(row)[i][j] \notin {LF, CR}

\* the rows handed out so far are the first rows written, and csvkit_read_row fails
\* on none of them and ends with the last
RoundTrip ==
    /\ Len(returned) <= Len(written)
    /\ \A k \in 1..Len(returned) : returned[k].fields = Texts(written[k])
    /\ AfterRead =>
           /\ ret.code \in {CSVKIT_OK, CSVKIT_ERROR_EOF}
           /\ ret.code = CSVKIT_ERROR_EOF <=> scan.pos0 = Len(sink)
           /\ ret.code = CSVKIT_ERROR_EOF => Len(returned) = Len(written)

\* C1: with escape_char = quote_char (the default configuration), rows of one or more
\*   fields over the delimiter, the quote, LF, CR and plain characters, written by
\*   csvkit_writer_write_row and decoded from the text produced, come back field for
\*   field and row for row.
C1_RoundTripDefault ==
    (Decoding /\ config.escape_char = config.quote_char) => RoundTrip

C1_Witness ==
    /\ Decoding
    /\ config.escape_char = config.quote_char
    /\ Len(written) = 2
    /\ Len(returned) = 2
    /\ \E i \in 1..Len(written[2]) : \E j \in 1..Len(Texts(written[2])[i]) :
           Texts(written[2])[i][j] \in {config.quote_char, CR}
    /\ ret.code = CSVKIT_ERROR_EOF

\* C2 (as the specification states it): when delimiter, quote_char and escape_char
\*   differ pairwise, rows of printable fields written and then decoded come back
\*   unchanged, escape_char in a field included.
C2_RoundTripDistinctEscape ==
    (/\ Decoding
     /\ config.escape_char # config.quote_char
     /\ config.escape_char # config.delimiter
     /\ \A k \in 1..Len(written) : Printable(written[k]))
        => RoundTrip

\* C4: the text of the stream is, row after row in the order written, the fields
\*   separated by the delimiter, each raw when it holds no delimiter, quote, LF or CR
\*   and otherwise between quotes with escape_char before every quote in it, a null
\*   field as the empty text, and one LF after the last field; a | b,c | d"e | f<LF>g
\*   gives a,"b,c","d""e","f<LF>g"<LF> in the default configuration.
C4_WriteRowText ==
    /\ sink = Flat([k \in 1..Len(written) |-> TextOfRow(writer.config, written[k])])
    /\ (written = <<WriteScenario>> /\ writer.config = csvkit_config_default)
           => sink = <<"a", ",", "\"", "b", ",", "c", "\"", ",",
                       "\"", "d", "\"", "\"", "e", "\"", ",",
                       "\"", "f", LF, "g", "\"", LF>>

C4_Witness ==
    /\ writer.config.escape_char # writer.config.quote_char
    /\ Len(written) = 2
    /\ \E i \in 1..Len(written[1]) : written[1][i] = NULL
    /\ Len(written[2]) = 2
    /\ written[2][2] = <<"\"">>
    /\ ret = Call("csvkit_writer_write_row", CSVKIT_OK)

----------------------------------------------------------------------------
(* Properties of construction and of the life cycle, under SpecLife *)

\* a constructor returned NULL
Refused(inst) == "instance" \in DOMAIN inst /\ inst.instance = "NULL"

\* what the specification forbids in a configuration
BadConfig(c) ==
    \/ c.delimiter \in {LF, CR}
    \/ c.quote_char \in {LF, CR}
    \/ c.escape_char \in {LF, CR}
    \/ c.delimiter = c.quote_char

\* C11: csvkit_parser_new_with_config and csvkit_writer_new_with_config return NULL
\*   exactly when delimiter, quote_char or escape_char is LF or CR, or delimiter is
\*   quote_char; the two accept the same configurations, and escape_char = quote_char
\*   is accepted.
C11_ConstructionRejects ==
    /\ Refused(parser) <=> BadConfig(cfg)
    /\ Refused(writer) <=> BadConfig(cfg)
    /\ validate_config(cfg) <=> writer_validate_config(cfg)
    /\ (cfg.escape_char = cfg.quote_char /\ cfg.delimiter \notin {cfg.quote_char, LF, CR}
            /\ cfg.quote_char \notin {LF, CR})
           => (~Refused(parser) /\ ~Refused(writer))

C11_Witness ==
    /\ cfg.delimiter = cfg.quote_char
    /\ cfg.escape_char # cfg.quote_char
    /\ cfg.delimiter \notin {LF, CR}
    /\ cfg.escape_char \notin {LF, CR}
    /\ Refused(parser)
    /\ Refused(writer)

\* the last call was an open of the parser that returned CSVKIT_OK
AfterOpen ==
    /\ ret.op \in {"csvkit_open_string", "csvkit_open_stream", "csvkit_open_file"}
    /\ ret.code = CSVKIT_OK

\* fopen's n-th FILE is bound to inst
BoundTo(inst, n) == Alive(inst) /\ inst.file = FileNo(n)

\* what every open that returned CSVKIT_OK leaves: the FILE of the previous source
\* closed if fopen made it, the new source bound and at its start, the counters
\* cleared; and no row is rejected for its field count before a row of the same
\* source was handed out
OpenResets ==
    /\ AfterOpen =>
           /\ parser.source_type # SOURCE_NONE
           /\ parser.row_number = 0
           /\ parser.expected_field_count = 0
           /\ parser.source_type = SOURCE_STRING =>
                  (parser.string_pos = 0 /\ parser.string_data = input)
           /\ parser.source_type = SOURCE_FILE => SourcePos(parser, fs) = 0
           /\ \A n \in 1..Len(fs.files) :
                  IF BoundTo(parser, n) THEN fs.files[n].closes = 0
                  ELSE fs.files[n].closes = 1
    /\ (cfg.strict_mode /\ AfterRead /\ scan.kept /\ ret.code = CSVKIT_ERROR_PARSE)
           => Len(returned) >= 1
    /\ (cfg.strict_mode /\ returned # <<>>)
           => parser.expected_field_count = Len(returned[1].fields)

\* C15 (as the specification states it): every open that succeeds closes the source
\*   bound before, puts the read position at the start of the new source and clears
\*   the row counter and the expected field count; the first row handed out from the
\*   new source has row_number 1 and, in strict mode, fixes the expected field count
\*   whatever the previous source's was.
C15_OpenResetsFirstRowIsOne ==
    OnParser =>
        /\ OpenResets
        /\ returned # <<>> => returned[1].row_number = 1

\* C15 (amended): the same, the first row handed out from the new source having
\*   row_number 1 plus the number of rows skip_empty_rows elided before it (1 when
\*   skip_empty_rows is off): the first row decoded from the new source is row 1.
C15_OpenResetsFirstDecodedIsOne ==
    OnParser =>
        /\ OpenResets
        /\ returned # <<>> =>
               /\ returned[1].row_number = 1 + returned[1].before
               /\ ~cfg.skip_empty_rows => returned[1].row_number = 1

C15_Witness ==
    /\ OnParser
    /\ cfg.strict_mode
    /\ parser.error_msg = strdup("Field count mismatch in strict mode")
    /\ BoundTo(parser, 1)
    /\ ret = Call("csvkit_read_row", CSVKIT_OK)
    /\ Len(returned) = 1
    /\ returned[1].row_number = 1
    /\ parser.expected_field_count = 1

\* C16: csvkit_close and csvkit_writer_close are idempotent: a second close in a row
\*   leaves the instance and the FILE objects as the first left them, and no FILE
\*   is handed to fclose twice; after a close the instance is unbound, and on an
\*   unbound instance csvkit_read_row and csvkit_writer_write_row return
\*   CSVKIT_ERROR_INVALID_ARG, until an open returns CSVKIT_OK.
C16_CloseIdempotent ==
    /\ \A n \in 1..Len(fs.files) : fs.files[n].closes <= 1
    /\ Alive(parser) =>
           LET once == csvkit_close(parser)
               left == csvkit_close_files(parser, fs)
           IN  /\ csvkit_close(once) = once
               /\ csvkit_close_files(once, left) = left
               /\ (once.source_type = SOURCE_NONE /\ once.file = NULL)
               /\ ret.op = "csvkit_close" => parser = once
               /\ ret.op = "csvkit_read_row" =>
                      (ret.code = CSVKIT_ERROR_INVALID_ARG
                           <=> parser.source_type = SOURCE_NONE)
               /\ (ret.op = "csvkit_open_file" /\ ret.code # CSVKIT_OK)
                      => parser.source_type = SOURCE_NONE
               /\ parser.source_type = SOURCE_NONE <=> parser.file = NULL
                      /\ parser.string_data = <<>>
    /\ Alive(writer) =>
           LET once == csvkit_writer_close(writer)
               left == csvkit_writer_close_files(writer, fs)
           IN  /\ csvkit_writer_close(once) = once
               /\ csvkit_writer_close_files(once, left) = left
               /\ once.file = NULL
               /\ ret.op = "csvkit_writer_close" => writer = once
               /\ ret.op = "csvkit_writer_write_row" =>
                      (ret.code = CSVKIT_ERROR_INVALID_ARG <=> writer.file = NULL)
               /\ (ret.op = "csvkit_writer_open_file" /\ ret.code # CSVKIT_OK)
                      => writer.file = NULL

C16_Witness ==
    /\ OnParser
    /\ ret = Call("csvkit_read_row", CSVKIT_ERROR_INVALID_ARG)
    /\ Len(fs.files) = 1
    /\ fs.files[1].closes = 1
    /\ parser.owns_file
    /\ parser.source_type = SOURCE_NONE

\* csvkit_parser_free or csvkit_writer_free was called on the instance
Freed(inst) == "instance" \in DOMAIN inst /\ inst.instance = "FREED"

\* C17: over any sequence of opens, closes and a free, a parser or a writer has at
\*   most one bound source: the FILE objects fopen made for it are all closed but the
\*   one it is bound to, each was handed to fclose once and no more, none is open
\*   once the instance is unbound or freed, and a caller's stream is never closed.
C17_OneSourceFilesClosedOnce ==
    /\ fs.stream_closes = 0
    /\ \A n \in 1..Len(fs.files) :
           fs.files[n].closes = IF BoundTo(parser, n) \/ BoundTo(writer, n) THEN 0 ELSE 1
    /\ Cardinality({ n \in 1..Len(fs.files) : fs.files[n].closes = 0 }) <= 1
    /\ Alive(parser) =>
           /\ parser.source_type = SOURCE_FILE <=>
                  (parser.file # NULL /\ IsFopened(parser.file) /\ parser.owns_file)
           /\ parser.source_type = SOURCE_STREAM <=>
                  (parser.file = INPUT_STREAM /\ ~parser.owns_file)
           /\ parser.source_type \in {SOURCE_NONE, SOURCE_STRING} => parser.file = NULL
           /\ parser.source_type # SOURCE_STRING => parser.string_data = <<>>
    /\ Alive(writer) =>
           /\ writer.owns_file <=> (writer.file # NULL /\ IsFopened(writer.file))
           /\ writer.file \in {NULL, STREAM} \/ IsFopened(writer.file)

C17_Witness ==
    /\ Freed(parser)
    /\ Len(fs.files) = 2
    /\ fs.files[1].closes = 1
    /\ fs.files[2].closes = 1
    /\ fs.stream_pos > 0
    /\ fs.stream_closes = 0

\* the result codes of a call that failed; CSVKIT_ERROR_EOF is not one
Failures ==
    {CSVKIT_ERROR_IO, CSVKIT_ERROR_PARSE, CSVKIT_ERROR_MEMORY, CSVKIT_ERROR_INVALID_ARG}

\* C18 (as the specification states it): after a call on a parser or a writer that
\*   returned CSVKIT_ERROR_IO, _PARSE, _MEMORY or _INVALID_ARG, the error message of
\*   the instance is not NULL and was stored by that call.
C18_FailureStoresMessage ==
    ret.code \in Failures =>
        /\ msg_set
        /\ (ret.op \in ParserCalls /\ Alive(parser)) => parser.error_msg # NULL
        /\ (ret.op \in WriterCalls /\ Alive(writer)) => writer.error_msg # NULL

\* C19 (as the specification states it): csvkit_read_row hands out a row exactly when
\*   it returns CSVKIT_OK: after CSVKIT_ERROR_PARSE, _MEMORY, _EOF, and
\*   _INVALID_ARG on an unbound parser, the caller's out row is NULL.
C19_NoRowUnlessOK ==
    (OnParser /\ ret.op = "csvkit_read_row") =>
        (ret.code = CSVKIT_OK <=> ~out_row.null)

----------------------------------------------------------------------------
(* More properties of the decoder, under Spec *)

\* C21 (as the specification states it): in strict mode the character peeked after a
\*   closing quote is pushed back on the failing path too: after csvkit_read_row
\*   returned CSVKIT_ERROR_PARSE for a stray character after a closing quote, that
\*   character is the next one read_char returns.
C21_StrayIsPushedBack ==
    \A j \in 1..Len(input) :
        (FirstRead /\ config.strict_mode /\ StrayAt(config, input, j)
             /\ ret.code = CSVKIT_ERROR_PARSE)
            => /\ parser.string_pos = j
               /\ read_char(parser.string_data, parser.string_pos).c = input[j + 1]

\* the one field of the one row that data decodes to
OneField(cf, data) == RowsOf(cf, data)[1].fields[1]

\* C24: with escape_char # quote_char, inside a quoted field escape_char before
\*   quote_char gives one quote_char, escape_char before escape_char gives one
\*   escape_char, and escape_char before any other character X gives escape_char
\*   followed by what X gives when it is read inside the quoted field without an
\*   escape_char before it; in the three cases the field is still open after X.
C24_EscapeInsideQuotes ==
    LET q == config.quote_char
        e == config.escape_char
    IN  (e # q /\ Len(input) = 3 /\ input[1] = q /\ input[2] = e) =>
            LET X == input[3]
                closed == RowsOf(config, input \o <<q>>)
            IN  /\ FirstRead => (ret.code = CSVKIT_ERROR_PARSE /\ scan.in_quotes)
                /\ Len(closed) = 1
                /\ Len(closed[1].fields) = 1
                /\ closed[1].fields[1] =
                       IF X = q THEN <<q>>
                       ELSE IF X = e THEN <<e>>
                       ELSE <<e>> \o OneField(config, <<q, X, q>>)
                /\ X \notin {q, e} => OneField(config, <<q, X, q>>) = <<X>>

C24_Witness ==
    /\ FirstRead
    /\ config.escape_char = "\\"
    /\ input = <<config.quote_char, config.escape_char, config.delimiter>>
    /\ ret.code = CSVKIT_ERROR_PARSE
    /\ RowsOf(config, input \o <<config.quote_char>>)[1].fields = << <<"\\", ",">> >>

\* no character of t ends a field or a row
OneFieldText(cf, t) == \A i \in 1..Len(t) : t[i] \notin {cf.delimiter, LF, CR}

\* C25: outside quotes a quote_char opens a quoted field only as the first character
\*   of a field, and is then not part of the field; after an unquoted character, or
\*   after a closing quote, it is appended to the field like any other character and
\*   opens nothing.
C25_QuoteOpensOnlyAtFieldStart ==
    LET q == config.quote_char
        e == config.escape_char
    IN  (FirstRead /\ ~config.skip_empty_rows /\ ~config.trim_whitespace
             /\ Len(input) >= 1) =>
            \* a field that begins with an unquoted character keeps its quotes
            /\ (input[1] # q /\ OneFieldText(config, input)) =>
                   (ret.code = CSVKIT_OK /\ out_row.fields = <<input>>)
            \* a quote_char at the start of a field opens it and is not emitted
            /\ (input[1] = q /\ \A i \in 2..Len(input) : input[i] \notin {q, e}) =>
                   (ret.code = CSVKIT_ERROR_PARSE /\ scan.in_quotes)
            /\ (Len(input) = 3 /\ input[1] = q /\ input[2] = q
                    /\ input[3] \in {config.delimiter, LF}) =>
                   /\ ret.code = CSVKIT_OK
                   /\ out_row.fields = IF input[3] = LF THEN << <<>> >>
                                       ELSE << <<>>, <<>> >>
            /\ (Len(input) = 3 /\ input[1] = config.delimiter /\ input[2] = q
                    /\ input[3] \notin {q, e}) =>
                   (ret.code = CSVKIT_ERROR_PARSE /\ scan.in_quotes /\ scan.fields = << <<>> >>)
            \* after the closing quote the field goes on, quotes included
            /\ (/\ Len(input) >= 3 /\ input[1] = q /\ input[2] = q
                /\ (e = q => input[3] # q)
                /\ OneFieldText(config, input)
                /\ ~config.strict_mode) =>
                   /\ ret.code = CSVKIT_OK
                   /\ out_row.fields = << SubSeq(input, 3, Len(input)) >>
            /\ (input = QuoteAfterClosedScenario /\ ~config.strict_mode) =>
                   /\ ret.code = CSVKIT_OK
                   /\ out_row.fields = << <<"a", "b", q, "c">> >>

C25_Witness ==
    /\ FirstRead
    /\ ~config.strict_mode
    /\ config.escape_char = config.quote_char
    /\ input = QuoteAfterClosedScenario
    /\ out_row.fields = << <<"a", "b", "\"", "c">> >>

\* the fields joined by the delimiter
Join(fields, d) ==
    Flat([i \in 1..Len(fields) |-> (IF i > 1 THEN <<d>> ELSE <<>>) \o fields[i]])

\* in a text without quotes, the line whose decoding left the source at pos: up to its
\* line terminator (LF, CR LF or CR), which is not part of it, or up to the end
LastLine(t, pos) ==
    LET last  == IF pos = 0 THEN 0
                 ELSE IF t[pos] = LF
                 THEN IF pos > 1 /\ t[pos - 1] = CR THEN pos - 2 ELSE pos - 1
                 ELSE IF t[pos] = CR THEN pos - 1
                 ELSE pos
        ends  == { i \in 1..last : t[i] \in {LF, CR} }
        first == IF ends = {} THEN 1 ELSE SetMax(ends) + 1
    IN  SubSeq(t, first, last)

Count(t, ch) == Cardinality({ i \in 1..Len(t) : t[i] = ch })

\* C26: with trim_whitespace off, the row handed out for a line without quote_char has
\*   one field more than the line has delimiters, and the fields joined by the
\*   delimiter are the line: a delimiter at the start, at the end or after another
\*   delimiter gives an empty field.
C26_FieldsOfUnquotedLine ==
    (/\ AfterRead
     /\ ret.code = CSVKIT_OK
     /\ ~config.trim_whitespace
     /\ \A i \in 1..Len(input) : input[i] # config.quote_char) =>
        LET d    == config.delimiter
            line == LastLine(input, parser.string_pos)
        IN  /\ Len(out_row.fields) = Count(line, d) + 1
            /\ Join(out_row.fields, d) = line
            /\ \A i \in 1..Len(out_row.fields) : Count(out_row.fields[i], d) = 0
            /\ (FirstRead /\ input = <<d, d, "a">>) =>
                   out_row.fields = << <<>>, <<>>, <<"a">> >>
            /\ (FirstRead /\ input = <<"a", d, d>>) =>
                   out_row.fields = << <<"a">>, <<>>, <<>> >>

C26_Witness ==
    /\ AfterRead
    /\ ret.code = CSVKIT_OK
    /\ ~config.trim_whitespace
    /\ config.skip_empty_rows
    /\ input = <<LF, config.delimiter, "a">>
    /\ out_row.fields = << <<>>, <<"a">> >>
    /\ out_row.row_number = 2

\* the bound buffer has been read to its end
Exhausted ==
    parser.source_type = SOURCE_STRING /\ parser.string_pos = Len(parser.string_data)

\* C27: end-of-input is absorbing: csvkit_read_row returns CSVKIT_ERROR_EOF only with
\*   the source read to its end, and with the source read to its end the next
\*   csvkit_read_row returns CSVKIT_ERROR_EOF, hands out no row and leaves the parser,
\*   its row counter and expected field count included, as it found it; so every
\*   csvkit_read_row after the first end-of-input returns end-of-input, until an open.
C27_EndOfInputAbsorbing ==
    /\ (AfterRead /\ ret.code = CSVKIT_ERROR_EOF /\ parser.source_type # SOURCE_NONE)
           => Exhausted
    /\ Exhausted =>
           LET r == read_next_row(parser, 0)
           IN  /\ r.result = CSVKIT_ERROR_EOF
               /\ r.row.null
               /\ r.parser = parser
    /\ (AfterRead /\ scan.pos0 = Len(input)) =>
           (ret.code = CSVKIT_ERROR_EOF /\ out_row.null /\ Exhausted)

C27_Witness ==
    /\ AfterRead
    /\ ret.code = CSVKIT_ERROR_EOF
    /\ config.skip_empty_rows /\ config.strict_mode
    /\ input = <<"a", LF, LF>>
    /\ scan.pos0 = 3
    /\ parser.row_number = 2
    /\ parser.expected_field_count = 1
    /\ Len(returned) = 1

\* C29: with skip_empty_rows and strict_mode on, a row elided as empty is neither
\*   checked against the expected field count nor taken for it: the expected count is
\*   unset until a row is handed out and is then the field count of the first row
\*   handed out; a row is rejected for its field count only if it is not empty; and
\*   a,b<LF><LF>,<LF>c,d<LF> gives the rows a | b and c | d and no parse error.
C29_ElidedRowsNotCounted ==
    (config.skip_empty_rows /\ config.strict_mode) =>
        /\ returned = <<>> => parser.expected_field_count = 0
        /\ returned # <<>> => parser.expected_field_count = Len(returned[1].fields)
        /\ (AfterRead /\ scan.kept) => ~AllEmpty(scan.fields)
        /\ (AfterRead /\ scan.kept /\ ret.code = CSVKIT_ERROR_PARSE) =>
               (returned # <<>> /\ Len(scan.fields) # Len(returned[1].fields))
        /\ input = SkipStrictScenario =>
               /\ AfterRead => ret.code \in {CSVKIT_OK, CSVKIT_ERROR_EOF}
               /\ IsPrefix([k \in 1..Len(returned) |-> returned[k].fields],
                           << << <<"a">>, <<"b">> >>, << <<"c">>, <<"d">> >> >>)
               /\ (AfterRead /\ ret.code = CSVKIT_ERROR_EOF) =>
                      (Len(returned) = 2 /\ dropped = 2)

C29_Witness ==
    /\ config.skip_empty_rows /\ config.strict_mode
    /\ input = SkipStrictScenario
    /\ AfterRead
    /\ ret.code = CSVKIT_ERROR_EOF
    /\ Len(returned) = 2
    /\ returned[2].row_number = 4
    /\ parser.expected_field_count = 2

\* C30: every row csvkit_read_row hands out has at least one field, as has every row
\*   parse_row_internal decodes; so in strict mode the expected field count is 0
\*   exactly as long as no row of the source was handed out.
C30_RowsHaveAField ==
    /\ \A k \in 1..Len(returned) : Len(returned[k].fields) >= 1
    /\ ~out_row.null => Len(out_row.fields) >= 1
    /\ (AfterRead /\ scan.result = CSVKIT_OK) => Len(scan.fields) >= 1
    /\ config.strict_mode => (parser.expected_field_count = 0 <=> returned = <<>>)
    /\ ~config.strict_mode => parser.expected_field_count = 0

C30_Witness ==
    /\ config.strict_mode
    /\ input = <<LF, "a">>
    /\ Len(returned) = 2
    /\ returned[1].fields = << <<>> >>
    /\ parser.expected_field_count = 1
    /\ ret.code = CSVKIT_OK

----------------------------------------------------------------------------
(* Properties of the loop, under SpecScan *)

\* a csvkit_read_row call followed pass by pass ends as read_next_row says it does
ScanAgrees ==
    (~Scanning /\ ret.op = "csvkit_read_row" /\ ret.code # CSVKIT_ERROR_INVALID_ARG) =>
        LET r == read_next_row(locals.entry, 0)
        IN  /\ r.parser = parser
            /\ r.result = ret.code
            /\ r.row = out_row

\* a pass that comes back to the loop's test has consumed a character
PassProgress ==
    (locals.pc = "loop" /\ locals'.pc = "loop" /\ locals'.start = locals.start)
        => parser'.string_pos > parser.string_pos

\* a row that is elided has consumed a character
RetryProgress ==
    (locals.pc = "after" /\ locals'.pc = "loop") => locals'.start > locals.start

\* C22: csvkit_read_row terminates on every finite input: a pass of the character loop
\*   that returns to the loop's test leaves the source position further than it found
\*   it, whatever it pushed back; a retry of the skip_empty_rows loop starts further than
\*   the one before; the position never passes the end of the input; and every call
\*   returns, with a row (CSVKIT_OK), CSVKIT_ERROR_PARSE or CSVKIT_ERROR_EOF, as
\*   read_next_row computes it.
C22_ReadRowTerminates ==
    /\ [][PassProgress /\ RetryProgress]_vars
    /\ [](parser.string_pos <= Len(parser.string_data))
    /\ []ScanAgrees
    /\ [](ret.op = "csvkit_read_row" =>
              /\ ret.code \in {CSVKIT_OK, CSVKIT_ERROR_PARSE, CSVKIT_ERROR_EOF,
                               CSVKIT_ERROR_INVALID_ARG}
              /\ ~Scanning => (ret.code = CSVKIT_OK <=> ~out_row.null))
    /\ (Scanning ~> ~Scanning)

C22_Witness ==
    /\ ~Scanning
    /\ config.skip_empty_rows
    /\ input = <<LF, CR, "a">>
    /\ ret = Call("csvkit_read_row", CSVKIT_OK)
    /\ out_row.row_number = 3
    /\ parser.string_pos = 3

----------------------------------------------------------------------------
(* Properties of the iterator, under SpecIter *)

\* the rows the body has visited, as csvkit_read_row handed them out
Visited == [k \in 1..Len(it.visited) |->
               [fields |-> it.visited[k].fields, row_number |-> it.visited[k].row_number]]

\* C23: the loop it = begin(); it != end(); ++it with *it in its body visits the rows
\*   successive csvkit_read_row calls return, in their order and each once: begin()
\*   reads nothing, the first comparison reads the first row, each ++it the next one,
\*   the row visited is the last one read, and the loop ends at the first
\*   end-of-input (or with the exception Parser::read_row throws) without a further
\*   read.
C23_IterationVisitsReadRows ==
    it.pc # "none" =>
        /\ \A k \in 1..Len(it.visited) : ~it.visited[k].null
        /\ IsPrefix(Visited, Handed)
        /\ (it.pc = "test" /\ ~it.obj.initialized_) =>
               (it.reads = 0 /\ ret.op # "csvkit_read_row" /\ parser.string_pos = 0)
        /\ (it.pc = "test" /\ it.obj.initialized_) =>
               /\ it.reads = Len(it.visited) + 1
               /\ Len(returned) = Len(it.visited) + (IF it.obj.is_end_ THEN 0 ELSE 1)
               /\ it.obj.is_end_ <=> ret.code = CSVKIT_ERROR_EOF
        /\ it.pc = "body" =>
               /\ it.obj.initialized_ /\ ~it.obj.is_end_
               /\ it.reads = Len(it.visited) + 1
               /\ Len(returned) = Len(it.visited) + 1
               /\ it.obj.current_ = out_row
               /\ out_row.fields = returned[Len(returned)].fields
        /\ it.pc = "incr" =>
               /\ it.obj.initialized_ /\ ~it.obj.is_end_
               /\ it.reads = Len(it.visited)
               /\ Visited = Handed
        /\ it.pc = "done" =>
               /\ ret = Call("csvkit_read_row", CSVKIT_ERROR_EOF)
               /\ it.reads = Len(it.visited) + 1
               /\ Visited = Handed
               /\ Visited = RowsOf(config, input)
        /\ it.pc = "thrown" =>
               /\ ret.op = "csvkit_read_row"
               /\ Throws(ret.code)
               /\ it.reads = Len(it.visited) + 1
               /\ Visited = Handed

C23_Witness ==
    /\ it.pc = "done"
    /\ input = <<LF, "a", LF>>
    /\ ~config.skip_empty_rows
    /\ Len(it.visited) = 2
    /\ it.visited[2] = Row(<< <<"a">> >>, 2)
    /\ it.reads = 3

----------------------------------------------------------------------------
(* More properties of the life cycle, under SpecLife *)

\* a step that is a csvkit_open_file returning CSVKIT_ERROR_IO
FailedOpenStep == ret' = Call("csvkit_open_file", CSVKIT_ERROR_IO)

\* C28: a csvkit_open_file that fails with CSVKIT_ERROR_IO has released the source
\*   bound before (its FILE closed if fopen made it) and leaves the parser unbound,
\*   with the row counter and the expected field count it had before the call; the
\*   csvkit_read_row that follows returns CSVKIT_ERROR_INVALID_ARG and reads nothing.
C28_FailedOpenUnbinds ==
    [][/\ FailedOpenStep =>
              /\ parser'.source_type = SOURCE_NONE
              /\ parser'.file = NULL
              /\ parser'.string_data = <<>>
              /\ parser'.row_number = parser.row_number
              /\ parser'.expected_field_count = parser.expected_field_count
              /\ parser'.error_msg # NULL
              /\ \A n \in 1..Len(fs'.files) : fs'.files[n].closes = 1
              /\ fs'.stream_closes = 0
       /\ (ret = Call("csvkit_open_file", CSVKIT_ERROR_IO)
               /\ ret'.op = "csvkit_read_row") =>
              /\ ret'.code \in {CSVKIT_ERROR_INVALID_ARG}
              /\ UNCHANGED <<parser, fs, returned>>
      ]_vars

C28_Witness ==
    /\ ret = Call("csvkit_open_file", CSVKIT_ERROR_IO)
    /\ cfg.strict_mode
    /\ parser.row_number = 1
    /\ parser.expected_field_count = 1
    /\ Len(fs.files) = 1
    /\ fs.files[1].closes = 1
    /\ fs.stream_pos > 0

\* a step that is a csvkit_writer_write_row
WriteRowStep == ret'.op = "csvkit_writer_write_row"

\* the text behind the FILE objects other than h is left as it was
OthersUntouched(h) ==
    /\ Len(fs'.files) = Len(fs.files)
    /\ \A n \in 1..Len(fs.files) : FileNo(n) # h => fs'.files[n] = fs.files[n]
    /\ h # STREAM => sink' = sink
    /\ fs'.stream_pos = fs.stream_pos /\ fs'.stream_closes = fs.stream_closes

\* C31: a writer is unbound (file NULL, owns_file false) after construction, after
\*   csvkit_writer_close and after a csvkit_writer_open_file that failed, which has
\*   closed the sink bound before; csvkit_writer_write_row on an unbound writer returns
\*   CSVKIT_ERROR_INVALID_ARG and changes no sink, no FILE and not the writer; a
\*   csvkit_writer_write_row that returns CSVKIT_OK appends the row's text to the sink
\*   bound at the call and leaves every other sink as it was.
C31_WriteNeedsBoundSink ==
    [][Alive(writer) =>
         /\ ret.op = "new" => (writer.file = NULL /\ ~writer.owns_file)
         /\ (ret'.op = "csvkit_writer_close"
                \/ ret' = Call("csvkit_writer_open_file", CSVKIT_ERROR_IO)) =>
                /\ writer'.file = NULL /\ ~writer'.owns_file
                /\ \A n \in 1..Len(fs'.files) : fs'.files[n].closes = 1
                /\ fs'.stream_closes = 0
         /\ (WriteRowStep /\ writer.file = NULL) =>
                /\ ret'.code = CSVKIT_ERROR_INVALID_ARG
                /\ UNCHANGED <<writer, sink, fs, written>>
         /\ (WriteRowStep /\ ret'.code = CSVKIT_ERROR_INVALID_ARG) => writer.file = NULL
         /\ (WriteRowStep /\ ret'.code = CSVKIT_OK) =>
                /\ writer.file # NULL
                /\ writer' = writer
                /\ SinkText(writer, fs', sink') = SinkText(writer, fs, sink) \o <<"a", LF>>
                /\ IsFopened(writer.file) => fs.files[writer.file[2]].closes = 0
                /\ OthersUntouched(writer.file)
      ]_vars

C31_Witness ==
    /\ ret = Call("csvkit_writer_write_row", CSVKIT_ERROR_INVALID_ARG)
    /\ writer.error_msg = strdup("Failed to open file for writing")
    /\ writer.file = NULL
    /\ Len(fs.files) = 1
    /\ fs.files[1].closes = 1
    /\ written = << << <<"a">> >> >>
    /\ sink = <<"a", LF>>

----------------------------------------------------------------------------
(* Properties of the buffers of csvkit_read_row, under SpecGrow *)

\* C32: while a row is decoded, the characters in the field buffer are below its
\*   capacity with one place to spare and the fields in the list are within its
\*   capacity; at every test of the loop, the next write into the buffer, the write
\*   after it in the same pass (an escape character and the character after it) and
\*   the write of a delimiter-terminated field are at an index below the capacity in
\*   force at the write, the buffer being doubled when the write would fill it; after
\*   the loop the write of the last field is at an index below the list's capacity.
C32_WritesBelowCapacity ==
    Scanning =>
        /\ locals.buffer_capacity
               \in { INITIAL_BUFFER_SIZE * 2^k : k \in 0..Doublings }
        /\ Len(locals.buffer) <= locals.buffer_capacity - 1
        /\ Len(locals.fields) <= locals.fields_capacity
        /\ locals.fields_capacity >= INITIAL_FIELD_COUNT
        /\ locals.pc = "loop" =>
               LET first  == PutChar(locals, "a")
                   second == PutChar(first, "a")
                   field  == PutField(parser.config, locals)
               IN  /\ Len(locals.buffer) < first.buffer_capacity
                   /\ Len(first.buffer) < second.buffer_capacity
                   /\ Len(locals.buffer) = locals.buffer_capacity - 1 =>
                          first.buffer_capacity = 2 * locals.buffer_capacity
                   /\ Len(locals.buffer) < locals.buffer_capacity - 1 =>
                          first.buffer_capacity = locals.buffer_capacity
                   /\ Len(locals.fields) < field.fields_capacity
                   /\ Len(locals.fields) = locals.fields_capacity =>
                          field.fields_capacity = 2 * locals.fields_capacity
        /\ locals.pc = "after" =>
               LET last == LastField(parser.config, locals)
               IN  last.result = CSVKIT_OK =>
                       /\ Len(locals.fields) < last.l.fields_capacity
                       /\ Len(last.l.fields) <= last.l.fields_capacity

\* the escape character went into the last free place and the character after it
\* into the doubled buffer, in a row whose field list was doubled before
C32_Witness ==
    /\ locals.pc = "loop"
    /\ locals.in_quotes
    /\ parser.config.escape_char # parser.config.quote_char
    /\ Len(locals.fields) = INITIAL_FIELD_COUNT + 1
    /\ locals.fields_capacity = 2 * INITIAL_FIELD_COUNT
    /\ Len(locals.buffer) = INITIAL_BUFFER_SIZE
    /\ locals.buffer_capacity = 2 * INITIAL_BUFFER_SIZE
    /\ locals.buffer[INITIAL_BUFFER_SIZE - 1] = parser.config.escape_char
    /\ locals.buffer[INITIAL_BUFFER_SIZE] = "a"

====
